---- MODULE Spec2Model ----
(***************************************************************************)
(* Model of the novel-processing scripts: encoding recovery, chapter       *)
(* segmentation, content normalisation, compressed persistence and the     *)
(* batch orchestrator.                                                     *)
(*                                                                         *)
(* Text is a sequence of UTF-16 code units (integers), a buffer a sequence *)
(* of bytes (integers 0..255).                                             *)
(***************************************************************************)
EXTENDS Integers, Sequences, FiniteSets, TLC

VARIABLES
  mainPc,      \* position of main() / processAllTextFiles
  i,           \* processAllTextFiles: offset of the current batch in textFiles
  textFiles,   \* processAllTextFiles: the selected file names
  pc,          \* per file: the await processTextFile is suspended at, or its outcome
  inputDir,    \* CONFIG.INPUT_DIR: file name -> bytes
  outputDir,   \* CONFIG.OUTPUT_DIR: path -> bytes
  selectedFiles, \* process.argv.slice(2): the names given on the command line
  log,         \* per file: the lines the console got about it
  fn,          \* the function under call (pure-function specifications)
  arg,         \* its argument
  ret,         \* its latest result
  prev,        \* the result before the latest
  phase,       \* number of calls made
  frame        \* the locals of a function that is suspended or looping

vars ==
  <<mainPc, i, textFiles, pc, inputDir, outputDir, selectedFiles, log,
    fn, arg, ret, prev, phase, frame>>
mainVars == <<mainPc, i, textFiles, pc, inputDir, outputDir, selectedFiles, log>>
callVars == <<fn, arg, ret, prev, phase, frame>>

(***************************************************************************)
(* Bounds of the model.                                                    *)
(***************************************************************************)
NumFiles == 6
MaxLines == 5
MaxCleanLen == 5
MaxTextLen == 9
MaxPunctLen == 6
MaxBufLen == 3
MaxChapters == 2
MaxNovelLines == 3
MaxPushes == 3

(***************************************************************************)
(* Characters.                                                             *)
(***************************************************************************)
LF == 10
CR == 13
SPACE == 32
QUOTE == 34
BACKSLASH == 92
IDEOGRAPHIC_SPACE == 12288
REPLACEMENT == 65533
Di == 31532
Zhang == 31456
CJK_FIRST == 19968
CJK_LAST == 40879

\* \s of a JavaScript regular expression, also the set String.prototype.trim strips
WhiteSpace ==
  {9, 10, 11, 12, 13, 32, 160, 5760, 8232, 8233, 8239, 8287, 12288, 65279}
    \cup (8192..8202)

\* [零一二三四五六七八九十百千万\d]
Numerals ==
  {38646, 19968, 20108, 19977, 22235, 20116, 20845, 19971, 20843, 20061,
   21313, 30334, 21315, 19975} \cup (48..57)

\* length of the longest run of characters of C that starts at s[k]
RunLen(s, k, C) ==
  LET stop == CHOOSE m \in k..(Len(s) + 1) :
                /\ m > Len(s) \/ s[m] \notin C
                /\ \A j \in k..(m - 1) : s[j] \in C
  IN stop - k

\* length of the longest run of characters of C that ends at s[k]
RunLenBack(s, k, C) ==
  LET stop == CHOOSE m \in 0..k :
                /\ m = 0 \/ s[m] \notin C
                /\ \A j \in (m + 1)..k : s[j] \in C
  IN k - stop

\* String.prototype.trim
Trim(s) ==
  LET a == RunLen(s, 1, WhiteSpace)
      b == RunLenBack(s, Len(s), WhiteSpace)
  IN IF a = Len(s) THEN <<>> ELSE SubSeq(s, a + 1, Len(s) - b)

\* s.replace(/^\s+|\s+$/g, '')
StripEnds(s) ==
  LET a == RunLen(s, 1, WhiteSpace)
      t == SubSeq(s, a + 1, Len(s))
      b == RunLenBack(t, Len(t), WhiteSpace)
  IN SubSeq(t, 1, Len(t) - b)

RECURSIVE ReplaceRunsFrom(_, _, _, _, _)
ReplaceRunsFrom(s, k, C, min, repl) ==
  IF k > Len(s) THEN <<>>
  ELSE LET n == RunLen(s, k, C)
       IN IF n >= min
            THEN repl \o ReplaceRunsFrom(s, k + n, C, min, repl)
            ELSE IF n > 0
                   THEN SubSeq(s, k, k + n - 1) \o ReplaceRunsFrom(s, k + n, C, min, repl)
                   ELSE <<s[k]>> \o ReplaceRunsFrom(s, k + 1, C, min, repl)

\* s.replace(/C{min,}/g, repl): every maximal run of at least min characters of C
ReplaceRuns(s, C, min, repl) == ReplaceRunsFrom(s, 1, C, min, repl)

RECURSIVE ReplaceExactFrom(_, _, _, _, _)
ReplaceExactFrom(s, k, C, n, repl) ==
  IF k > Len(s) THEN <<>>
  ELSE IF RunLen(s, k, C) >= n
         THEN repl \o ReplaceExactFrom(s, k + n, C, n, repl)
         ELSE <<s[k]>> \o ReplaceExactFrom(s, k + 1, C, n, repl)

RECURSIVE SplitFrom(_, _, _)
SplitFrom(s, k, sep) ==
  LET stop == CHOOSE m \in k..(Len(s) + 1) :
                /\ m > Len(s) \/ s[m] = sep
                /\ \A j \in k..(m - 1) : s[j] # sep
  IN IF stop > Len(s)
       THEN <<SubSeq(s, k, Len(s))>>
       ELSE <<SubSeq(s, k, stop - 1)>> \o SplitFrom(s, stop + 1, sep)

\* s.split(sep) for a one-character separator
Split(s, sep) == SplitFrom(s, 1, sep)

RECURSIVE Join(_, _)
\* lines.join(sep)
Join(ls, sep) ==
  IF Len(ls) = 0 THEN <<>>
  ELSE IF Len(ls) = 1 THEN ls[1]
  ELSE ls[1] \o <<sep>> \o Join(Tail(ls), sep)

Contains(s, C) == \E k \in 1..Len(s) : s[k] \in C

RECURSIVE FlattenRange(_, _, _)
FlattenRange(pieces, lo, hi) ==
  IF lo > hi THEN <<>>
  ELSE IF lo = hi THEN pieces[lo]
  ELSE LET mid == (lo + hi) \div 2
       IN FlattenRange(pieces, lo, mid) \o FlattenRange(pieces, mid + 1, hi)

\* the concatenation of a sequence of sequences
Flatten(pieces) == FlattenRange(pieces, 1, Len(pieces))

(***************************************************************************)
(* TextProcessor.cleanContent and TextProcessor.extractChapters.           *)
(***************************************************************************)
\* a collapse that takes the whitespace two characters at a time: /\s{2}/g
cleanContentPairwise(content) ==
  ReplaceExactFrom(ReplaceRuns(StripEnds(content), {LF}, 3, <<LF, LF>>),
                   1, WhiteSpace, 2, <<SPACE>>)

cleanContent(content) ==
  ReplaceRuns(ReplaceRuns(StripEnds(content), {LF}, 3, <<LF, LF>>),
              WhiteSpace, 2, <<SPACE>>)

\* CONFIG.CHAPTER_REGEX.test(line): /^第[零一二三四五六七八九十百千万\d]+章/
CHAPTER_REGEX(line) ==
  /\ Len(line) >= 3
  /\ line[1] = Di
  /\ LET n == RunLen(line, 2, Numerals)
     IN /\ n >= 1
        /\ 2 + n <= Len(line)
        /\ line[2 + n] = Zhang

NoChapter == [open |-> FALSE, title |-> <<>>, content |-> <<>>]

\* the chapter as pushed: its lines joined and cleaned
CloseChapter(cur) ==
  [title |-> cur.title, content |-> cleanContent(Join(cur.content, LF))]

\* a heading that opens a chapter without pushing the one before it
PushOnHeadingLost(chapters, cur) == chapters

\* if (currentChapter) { ...; chapters.push(currentChapter) } on a heading line
PushOnHeading(chapters, cur) ==
  IF cur.open THEN Append(chapters, CloseChapter(cur)) ELSE chapters

\* an end of input that drops the open chapter
PushAtEndLost(chapters, cur) == chapters

\* if (currentChapter) { ...; chapters.push(currentChapter) } after the loop
PushAtEnd(chapters, cur) ==
  IF cur.open THEN Append(chapters, CloseChapter(cur)) ELSE chapters

\* else if (currentChapter) currentChapter.content.push(line)
Accumulate(cur, line) ==
  IF cur.open THEN [cur EXCEPT !.content = Append(@, line)] ELSE cur

\* a new chapter that keeps the lines collected for the one before it
OpenChapterKeepingBody(cur, line) ==
  [open |-> TRUE, title |-> Trim(line), content |-> cur.content]

\* currentChapter = { title: line.trim(), content: [] }
OpenChapter(cur, line) ==
  [open |-> TRUE, title |-> Trim(line), content |-> <<>>]

RECURSIVE ExtractLoop(_, _, _, _)
ExtractLoop(lines, k, chapters, cur) ==
  IF k > Len(lines)
    THEN PushAtEnd(chapters, cur)
    ELSE IF CHAPTER_REGEX(lines[k])
      THEN ExtractLoop(lines, k + 1, PushOnHeading(chapters, cur),
             OpenChapter(cur, lines[k]))
      ELSE ExtractLoop(lines, k + 1, chapters, Accumulate(cur, lines[k]))

extractChapters(content) == ExtractLoop(Split(content, LF), 1, <<>>, NoChapter)

(***************************************************************************)
(* extractChapters of scripts/old/gzipvv.js: the same loop, the cleaning   *)
(* in a map over the collected chapters.                                   *)
(***************************************************************************)
RECURSIVE ExtractLoopGz(_, _, _, _)
ExtractLoopGz(lines, k, chapters, cur) ==
  IF k > Len(lines)
    THEN IF cur.open THEN Append(chapters, cur) ELSE chapters
    ELSE IF CHAPTER_REGEX(lines[k])
      THEN ExtractLoopGz(lines, k + 1,
             IF cur.open THEN Append(chapters, cur) ELSE chapters,
             [open |-> TRUE, title |-> Trim(lines[k]), content |-> <<>>])
      ELSE IF cur.open
        THEN ExtractLoopGz(lines, k + 1, chapters,
               [cur EXCEPT !.content = Append(@, lines[k])])
        ELSE ExtractLoopGz(lines, k + 1, chapters, cur)

cleanContentGz(content) == ReplaceRuns(StripEnds(content), {LF}, 3, <<LF, LF>>)

extractChaptersGz(content) ==
  LET chapters == ExtractLoopGz(Split(content, LF), 1, <<>>, NoChapter)
  IN [j \in 1..Len(chapters) |->
        [title |-> chapters[j].title,
         content |-> cleanContentGz(Join(chapters[j].content, LF))]]

(***************************************************************************)
(* Specifications of the pure functions: the argument is drawn in Init and *)
(* the calls are the actions.                                              *)
(***************************************************************************)
MainIdle ==
  /\ mainPc = "off"
  /\ i = 0
  /\ textFiles = <<>>
  /\ pc = <<>>
  /\ inputDir = <<>>
  /\ outputDir = <<>>
  /\ selectedFiles = <<>>
  /\ log = <<>>

Strings(alphabet, maxLen) == UNION {[1..n -> alphabet] : n \in 0..maxLen}

\* the lines the segmenter is run on
LineSet ==
  { <<Di, 49, Zhang>>,                    \* heading, Arabic numeral
    <<Di, 21313, 19968, Zhang, 97, SPACE>>, \* heading, native numerals, title fragment
    <<97>>,                               \* body
    <<>>,                                 \* blank
    <<SPACE, Di, 49, Zhang>>,             \* heading text behind leading whitespace
    <<Di, Zhang, 97, CR>> }               \* no numeral

InitSeg ==
  /\ MainIdle
  /\ fn = "none"
  /\ arg \in UNION {[1..n -> LineSet] : n \in 1..MaxLines}
  /\ ret = <<>>
  /\ prev = <<>>
  /\ phase = 0
  /\ frame = <<>>

ExtractChaptersCall ==
  /\ phase = 0
  /\ fn' = "extractChapters"
  /\ ret' = extractChapters(Join(arg, LF))
  /\ phase' = 1
  /\ UNCHANGED <<arg, prev, frame, mainVars>>

ExtractChaptersGzCall ==
  /\ phase = 0
  /\ fn' = "extractChaptersGz"
  /\ ret' = extractChaptersGz(Join(arg, LF))
  /\ phase' = 1
  /\ UNCHANGED <<arg, prev, frame, mainVars>>

\* the lines as a text whose line ending is CR LF
JoinCRLF(lines) ==
  Join([k \in 1..Len(lines) |->
          IF k < Len(lines) THEN lines[k] \o <<CR>> ELSE lines[k]], LF)

\* extractChapters on the text with CR LF endings, beside its result on the
\* text with LF endings
ExtractChaptersCRLFCall ==
  /\ phase = 0
  /\ fn' = "extractChaptersCRLF"
  /\ ret' = extractChapters(JoinCRLF(arg))
  /\ prev' = extractChapters(Join(arg, LF))
  /\ phase' = 1
  /\ UNCHANGED <<arg, frame, mainVars>>

NextSeg == ExtractChaptersCall \/ ExtractChaptersGzCall \/ ExtractChaptersCRLFCall

SpecSeg == InitSeg /\ [][NextSeg]_vars

\* the positions of the heading lines of a text, and the j-th of them
HeadingLines(lines) == {k \in 1..Len(lines) : CHAPTER_REGEX(lines[k])}

NthHeading(lines, j) ==
  CHOOSE k \in HeadingLines(lines) :
    Cardinality({m \in HeadingLines(lines) : m <= k}) = j

\* the lines between the j-th heading and the next heading or the end
BodyLines(lines, j) ==
  LET n == Cardinality(HeadingLines(lines))
      from == NthHeading(lines, j) + 1
      to == IF j < n THEN NthHeading(lines, j + 1) - 1 ELSE Len(lines)
  IN SubSeq(lines, from, to)

\* C5: extractChapters returns exactly one chapter per heading line, in
\* document order, each titled with its heading line trimmed; the last
\* chapter needs no trailing heading and the lines before the first heading
\* produce no chapter.
C5_OneChapterPerHeading ==
  phase = 1 =>
    /\ Len(ret) = Cardinality(HeadingLines(arg))
    /\ \A j \in 1..Len(ret) : ret[j].title = Trim(arg[NthHeading(arg, j)])

\* a preamble line, then two headings each with a body, the second body ending
\* the text
C5_Witness ==
  /\ phase = 1
  /\ fn = "extractChapters"
  /\ Len(arg) = 5
  /\ arg[1] = <<97>>
  /\ HeadingLines(arg) = {2, 4}
  /\ arg[2] # Trim(arg[2])
  /\ Len(ret) = 2

\* C6: the content of every chapter is the cleaned join of exactly the lines
\* between its heading and the next heading (or the end): every such line is
\* in it, no line before the first heading and no heading line is.
C6_BodyBetweenHeadings ==
  (phase = 1 /\ fn = "extractChapters") =>
    /\ Len(ret) = Cardinality(HeadingLines(arg))
    /\ \A j \in 1..Len(ret) :
         ret[j].content = cleanContent(Join(BodyLines(arg, j), LF))

\* a preamble, a heading with a body line, a second heading with a body line
C6_Witness ==
  /\ phase = 1
  /\ fn = "extractChapters"
  /\ HeadingLines(arg) = {2, 4}
  /\ Len(arg) = 5
  /\ arg[1] # <<>>
  /\ ret[1].content # <<>>
  /\ ret[2].content # <<>>

(***************************************************************************)
(* cleanContent, called on a string and again on its own result.           *)
(***************************************************************************)
CleanAlphabet == {97, SPACE, LF, CR}

InitClean ==
  /\ MainIdle
  /\ fn = "cleanContent"
  /\ arg \in Strings(CleanAlphabet, MaxCleanLen)
  /\ ret = <<>>
  /\ prev = <<>>
  /\ phase = 0
  /\ frame = <<>>

CleanContentCall ==
  /\ phase < 2
  /\ prev' = ret
  /\ ret' = cleanContent(IF phase = 0 THEN arg ELSE ret)
  /\ phase' = phase + 1
  /\ UNCHANGED <<fn, arg, frame, mainVars>>

NextClean == CleanContentCall

SpecClean == InitClean /\ [][NextClean]_vars

\* C7: cleanContent is idempotent: cleaning a cleaned string changes nothing.
C7_CleanContentIdempotent == phase = 2 => ret = prev

\* a string that the first call changed, with a run of whitespace to collapse
C7_Witness ==
  /\ phase = 2
  /\ prev # arg
  /\ \E k \in 1..(Len(arg) - 3) :
       /\ arg[k] = 97
       /\ arg[k + 1] \in WhiteSpace
       /\ arg[k + 2] \in WhiteSpace
       /\ arg[k + 3] \in WhiteSpace
  /\ Contains(prev, {SPACE})

(***************************************************************************)
(* iconv.decode for the two candidate encodings.                           *)
(***************************************************************************)
Continuation == 128..191

\* the range of the byte after the lead byte b1 of a well-formed UTF-8 sequence
SecondByteRange(b1) ==
  IF b1 = 224 THEN 160..191
  ELSE IF b1 = 237 THEN 128..159
  ELSE IF b1 = 240 THEN 144..191
  ELSE IF b1 = 244 THEN 128..143
  ELSE Continuation

\* the UTF-16 code units of a code point
CodeUnits(cp) ==
  IF cp < 65536 THEN <<cp>>
  ELSE <<55296 + ((cp - 65536) \div 1024), 56320 + ((cp - 65536) % 1024)>>

\* the continuation bytes a sequence expects after its first byte
Utf8Need(b1) ==
  IF b1 \in 194..223 THEN 1
  ELSE IF b1 \in 224..239 THEN 2
  ELSE IF b1 \in 240..244 THEN 3
  ELSE 0

\* the continuation bytes that are there, well-formed, after the byte at k
Utf8Have(b, k) ==
  LET need == Utf8Need(b[k])
  IN IF need >= 1 /\ k + 1 <= Len(b) /\ b[k + 1] \in SecondByteRange(b[k])
       THEN IF need >= 2 /\ k + 2 <= Len(b) /\ b[k + 2] \in Continuation
              THEN IF need >= 3 /\ k + 3 <= Len(b) /\ b[k + 3] \in Continuation
                     THEN 3 ELSE 2
              ELSE 1
       ELSE 0

\* the byte at k belongs to the sequence that a byte before it starts
Utf8Consumed(b, k) ==
  \E p \in {k - 3, k - 2, k - 1} : p >= 1 /\ Utf8Need(b[p]) > 0 /\ k - p <= Utf8Have(b, p)

\* what the sequence starting at k decodes to: an ill-formed or truncated
\* sequence gives one replacement glyph
Utf8Unit(b, k) ==
  LET b1 == b[k]
      need == Utf8Need(b1)
  IN IF b1 < 128 THEN <<b1>>
     ELSE IF need = 0 \/ Utf8Have(b, k) < need THEN <<REPLACEMENT>>
     ELSE IF need = 1 THEN <<(b1 - 192) * 64 + (b[k + 1] - 128)>>
     ELSE IF need = 2
       THEN <<(b1 - 224) * 4096 + (b[k + 1] - 128) * 64 + (b[k + 2] - 128)>>
     ELSE CodeUnits((b1 - 240) * 262144 + (b[k + 1] - 128) * 4096
                      + (b[k + 2] - 128) * 64 + (b[k + 3] - 128))

\* buffer.toString('utf8')
Utf8ToString(b) ==
  Flatten([k \in 1..Len(b) |-> IF Utf8Consumed(b, k) THEN <<>> ELSE Utf8Unit(b, k)])

\* iconv-lite strips a leading byte order mark
StripBOM(text) == IF Len(text) > 0 /\ text[1] = 65279 THEN Tail(text) ELSE text

Utf8Decode(b) == StripBOM(Utf8ToString(b))

\* The rows of the cp936 table that the buffers of the model reach:
\* <<lead byte, trail byte, character>>.
GB_TABLE ==
  { <<181, 218, 31532>>, <<213, 194, 31456>>, <<161, 161, 12288>>,
    <<228, 97, 37579>>, <<228, 228, 28375>>, <<228, 184, 28051>>,
    <<228, 176, 27986>>, <<228, 183, 27998>>, <<228, 225, 28349>>,
    <<184, 97, 31436>>, <<184, 228, 38224>>, <<184, 184, 29238>>,
    <<184, 176, 36212>>, <<184, 183, 38428>>, <<184, 225, 32660>>,
    <<176, 97, 30318>>, <<176, 228, 39041>>, <<176, 184, 26696>>,
    <<176, 176, 38797>>, <<176, 183, 33018>>, <<176, 225, 25644>>,
    <<183, 97, 31305>>, <<183, 228, 34562>>, <<183, 184, 29359>>,
    <<183, 176, 38034>>, <<183, 183, 36137>>, <<183, 225, 20016>>,
    <<225, 97, 37267>>, <<225, 228, 24476>>, <<225, 184, 23715>>,
    <<225, 176, 23706>>, <<225, 183, 23729>>, <<225, 225, 24460>> }

GbAssigned(b1, b2) == \E t \in GB_TABLE : t[1] = b1 /\ t[2] = b2

GbTwoByte(b1, b2) == (CHOOSE t \in GB_TABLE : t[1] = b1 /\ t[2] = b2)[3]

\* A four-byte form by its linear position; of the ranges table only the first
\* row (U+0080..) and the last (U+10000..) are tabulated, no buffer of the model
\* holds a four-byte form.
GbFourByte(b1, b2, b3, b4) ==
  LET ptr == (b1 - 129) * 12600 + (b2 - 48) * 1260 + (b3 - 129) * 10 + (b4 - 48)
  IN IF ptr >= 189000 THEN CodeUnits(65536 + ptr - 189000)
     ELSE IF ptr < 36 THEN <<128 + ptr>>
     ELSE <<REPLACEMENT>>

RECURSIVE GbDecodeFrom(_, _)
GbDecodeFrom(b, k) ==
  IF k > Len(b) THEN <<>>
  ELSE LET b1 == b[k]
       IN IF b1 < 128 THEN <<b1>> \o GbDecodeFrom(b, k + 1)
          ELSE IF b1 = 128 THEN <<8364>> \o GbDecodeFrom(b, k + 1)
          ELSE IF b1 = 255 \/ k + 1 > Len(b)
            THEN <<REPLACEMENT>> \o GbDecodeFrom(b, k + 1)
          ELSE IF GbAssigned(b1, b[k + 1])
            THEN <<GbTwoByte(b1, b[k + 1])>> \o GbDecodeFrom(b, k + 2)
          ELSE IF /\ b[k + 1] \in 48..57
                  /\ k + 3 <= Len(b)
                  /\ b[k + 2] \in 129..254
                  /\ b[k + 3] \in 48..57
            THEN GbFourByte(b1, b[k + 1], b[k + 2], b[k + 3]) \o GbDecodeFrom(b, k + 4)
          ELSE <<REPLACEMENT>> \o GbDecodeFrom(b, k + 1)

GbDecode(b) == StripBOM(GbDecodeFrom(b, 1))

IconvDecode(buffer, encoding) ==
  IF encoding = "utf8" THEN Utf8Decode(buffer) ELSE GbDecode(buffer)

(***************************************************************************)
(* TextProcessor.detectEncoding and TextProcessor.containsMalformedText.   *)
(***************************************************************************)
NonAscii == 128..65535
CJK == CJK_FIRST..CJK_LAST

\* the candidates tried in the opposite order
ENCODINGS_Reversed == <<"gb18030", "utf8">>

ENCODINGS == <<"utf8", "gb18030">>

\* a predicate that looks for the replacement glyph only when no other
\* character is outside ASCII
containsMalformedTextNoGlyph(text, encoding) ==
  IF encoding = "utf8"
    THEN Contains(text, NonAscii) /\ ~Contains(text, CJK)
         /\ ~Contains(text, {REPLACEMENT})
    ELSE FALSE

containsMalformedText(text, encoding) ==
  IF encoding = "utf8"
    THEN \/ Contains(text, {REPLACEMENT})
         \/ (Contains(text, NonAscii) /\ ~Contains(text, CJK))
    ELSE FALSE

RECURSIVE DetectFrom(_, _)
DetectFrom(buffer, k) ==
  IF k > Len(ENCODINGS)
    THEN [ok |-> FALSE, encoding |-> "none", content |-> <<>>]
    ELSE LET decoded == IconvDecode(buffer, ENCODINGS[k])
         IN IF ~containsMalformedText(decoded, ENCODINGS[k])
              THEN [ok |-> TRUE, encoding |-> ENCODINGS[k], content |-> decoded]
              ELSE DetectFrom(buffer, k + 1)

\* ok = FALSE stands for the thrown 'Failed to detect proper encoding'
detectEncoding(buffer) == DetectFrom(buffer, 1)

\* the bytes of "丰" in UTF-8 (228 184 176) and in GB18030 (183 225), an ASCII
\* letter and a byte that starts no sequence of either encoding
ByteAlphabet == {97, 228, 184, 176, 183, 225, 255}

InitEnc ==
  /\ MainIdle
  /\ fn = "detectEncoding"
  /\ arg \in Strings(ByteAlphabet, MaxBufLen)
  /\ ret = <<>>
  /\ prev = <<>>
  /\ phase = 0
  /\ frame = <<>>

DetectEncodingCall ==
  /\ phase = 0
  /\ ret' = detectEncoding(arg)
  /\ phase' = 1
  /\ UNCHANGED <<fn, arg, prev, frame, mainVars>>

NextEnc == DetectEncodingCall

SpecEnc == InitEnc /\ [][NextEnc]_vars

\* the malformed-text predicate in the words of the specification
Rejected(text) ==
  \/ \E k \in 1..Len(text) : text[k] = REPLACEMENT
  \/ /\ \E k \in 1..Len(text) : text[k] > 127
     /\ \A k \in 1..Len(text) : text[k] < CJK_FIRST \/ text[k] > CJK_LAST

\* C9: detectEncoding returns the utf8 decode with label utf8 exactly when the
\* utf8 decode is not rejected, and otherwise the gb18030 decode with label
\* gb18030; a utf8 decode holding the replacement glyph is never returned.
C9_FirstPassingCandidate ==
  phase = 1 =>
    /\ ret.ok
    /\ ret.encoding = (IF Rejected(Utf8Decode(arg)) THEN "gb18030" ELSE "utf8")
    /\ ret.content = IconvDecode(arg, ret.encoding)
    /\ ret.encoding = "utf8" => \A k \in 1..Len(ret.content) : ret.content[k] # REPLACEMENT

\* a buffer whose utf8 decode holds the replacement glyph, returned as gb18030 text
C9_Witness ==
  /\ phase = 1
  /\ Contains(Utf8Decode(arg), {REPLACEMENT})
  /\ ret.encoding = "gb18030"
  /\ Contains(ret.content, CJK)

\* C10: the predicate is applied to every candidate: the returned text is
\* never rejected by it, and when the decode of every candidate is rejected
\* the call fails.
C10_EveryCandidateChecked ==
  phase = 1 =>
    /\ ret.ok => ~Rejected(ret.content)
    /\ (Rejected(Utf8Decode(arg)) /\ Rejected(GbDecode(arg))) => ~ret.ok

(***************************************************************************)
(* The extended normalisers: cleanText and cleanAndStandardize.            *)
(***************************************************************************)
\* [.,!?;:]
Punctuation == {46, 44, 33, 63, 59, 58}

\* . of a regular expression without the s flag: anything but a line terminator
Dot == (0..65535) \ {LF, CR, 8232, 8233}

\* PUNCTUATION_MAP of the scripts: the replacement of a key, the character
\* itself when it is no key
PUNCTUATION_MAP(c) ==
  CASE c \in {65292, 12289} -> <<44>>
    [] c = 12290 -> <<46>>
    [] c = 65307 -> <<59>>
    [] c = 65306 -> <<58>>
    [] c = 65311 -> <<63>>
    [] c = 65281 -> <<33>>
    [] c \in {8220, 8221, 12298, 12299} -> <<QUOTE>>
    [] c \in {8216, 8217} -> <<39>>
    [] c = 65288 -> <<40>>
    [] c = 65289 -> <<41>>
    [] c = 12304 -> <<91>>
    [] c = 12305 -> <<93>>
    [] c = 8230 -> <<46, 46, 46>>
    [] c \in {160, IDEOGRAPHIC_SPACE} -> <<SPACE>>
    [] c \in {65279, REPLACEMENT} -> <<>>
    [] OTHER -> <<c>>

\* the keys that only the map of cleanText has
PUNCTUATION_MAP_1(c) ==
  CASE c = 8212 -> <<45>>
    [] c = 65374 -> <<126>>
    [] c = 8203 -> <<SPACE>>
    [] c = 65535 -> <<>>
    [] OTHER -> PUNCTUATION_MAP(c)

RECURSIVE NormalizeLineEndings(_)
\* .replace(/\r\n/g, '\n').replace(/\r/g, '\n')
NormalizeLineEndings(s) ==
  IF Len(s) = 0 THEN <<>>
  ELSE IF s[1] = CR
    THEN <<LF>> \o NormalizeLineEndings(
                     IF Len(s) >= 2 /\ s[2] = LF THEN Tail(Tail(s)) ELSE Tail(s))
    ELSE <<s[1]>> \o NormalizeLineEndings(Tail(s))

RECURSIVE MapPunctuation1(_)
MapPunctuation1(s) ==
  IF Len(s) = 0 THEN <<>> ELSE PUNCTUATION_MAP_1(s[1]) \o MapPunctuation1(Tail(s))

RECURSIVE MapPunctuation(_)
MapPunctuation(s) ==
  IF Len(s) = 0 THEN <<>> ELSE PUNCTUATION_MAP(s[1]) \o MapPunctuation(Tail(s))

RECURSIVE StandardizeQuotes(_)
\* .replace(/[＂‟ˮ]/g, '"').replace(/[＇ʹʻʼ]/g, "'")
StandardizeQuotes(s) ==
  IF Len(s) = 0 THEN <<>>
  ELSE (IF s[1] \in {65282, 8223, 750} THEN <<QUOTE>>
        ELSE IF s[1] \in {65287, 697, 699, 700} THEN <<39>>
        ELSE <<s[1]>>) \o StandardizeQuotes(Tail(s))

RECURSIVE MixedCommasFrom(_, _)
\* .replace(/,，/g, ',')
MixedCommasFrom(s, k) ==
  IF k > Len(s) THEN <<>>
  ELSE IF s[k] = 44 /\ k + 1 <= Len(s) /\ s[k + 1] = 65292
    THEN <<44>> \o MixedCommasFrom(s, k + 2)
    ELSE <<s[k]>> \o MixedCommasFrom(s, k + 1)

RECURSIVE SpaceBeforeFrom(_, _)
\* .replace(/\s+([.,!?;:])/g, '$1')
SpaceBeforeFrom(s, k) ==
  IF k > Len(s) THEN <<>>
  ELSE LET n == RunLen(s, k, WhiteSpace)
       IN IF n > 0 /\ k + n <= Len(s) /\ s[k + n] \in Punctuation
            THEN <<s[k + n]>> \o SpaceBeforeFrom(s, k + n + 1)
            ELSE IF n > 0
              THEN SubSeq(s, k, k + n - 1) \o SpaceBeforeFrom(s, k + n)
              ELSE <<s[k]>> \o SpaceBeforeFrom(s, k + 1)

RECURSIVE SpaceAfterFrom(_, _, _)
\* .replace(/([.,!?;:])([^\s"])/g, '$1 $2'), except: the characters [^...] leaves out
SpaceAfterFrom(s, k, except) ==
  IF k > Len(s) THEN <<>>
  ELSE IF s[k] \in Punctuation /\ k + 1 <= Len(s) /\ s[k + 1] \notin except
    THEN <<s[k], SPACE, s[k + 1]>> \o SpaceAfterFrom(s, k + 2, except)
    ELSE <<s[k]>> \o SpaceAfterFrom(s, k + 1, except)

\* (["'])\s+(.+?)\s+\1 matched at s[k] with n1 characters for the first \s+ and
\* m for the group: the second \s+ is then the whole run that follows
QuoteMatch(s, k, n1, m) ==
  LET g == k + 1 + n1
      n2 == RunLen(s, g + m, WhiteSpace)
  IN /\ g + m - 1 <= Len(s)
     /\ \A x \in g..(g + m - 1) : s[x] \in Dot
     /\ n2 >= 1
     /\ g + m + n2 <= Len(s)
     /\ s[g + m + n2] = s[k]

\* the match the backtracking finds first: the longest first \s+, then the
\* shortest group
QuoteFirstMatch(s, k) ==
  LET cands == {c \in (1..RunLen(s, k + 1, WhiteSpace)) \X (1..Len(s)) :
                  QuoteMatch(s, k, c[1], c[2])}
  IN CHOOSE c \in cands :
       \A d \in cands : d[1] < c[1] \/ (d[1] = c[1] /\ d[2] >= c[2])

RECURSIVE SpacedQuotesFrom(_, _)
\* .replace(/(["'])\s+(.+?)\s+\1/g, '$1$2$1')
SpacedQuotesFrom(s, k) ==
  IF k > Len(s) THEN <<>>
  ELSE IF /\ s[k] \in {QUOTE, 39}
          /\ \E c \in (1..RunLen(s, k + 1, WhiteSpace)) \X (1..Len(s)) :
               QuoteMatch(s, k, c[1], c[2])
    THEN LET c == QuoteFirstMatch(s, k)
             g == k + 1 + c[1]
             n2 == RunLen(s, g + c[2], WhiteSpace)
         IN <<s[k]>> \o SubSeq(s, g, g + c[2] - 1) \o <<s[k]>>
              \o SpacedQuotesFrom(s, g + c[2] + n2 + 1)
    ELSE <<s[k]>> \o SpacedQuotesFrom(s, k + 1)

\* cleanText of part_001
cleanText(content) ==
  LET mapped == MapPunctuation1(NormalizeLineEndings(content))
      commas == MixedCommasFrom(mapped, 1)
      dots == ReplaceRuns(commas, {46}, 3, <<46, 46, 46>>)
      before == SpaceBeforeFrom(dots, 1)
      after == SpaceAfterFrom(before, 1, WhiteSpace \cup {QUOTE})
      quotes == SpacedQuotesFrom(after, 1)
  IN Trim(ReplaceRuns(quotes, {LF}, 3, <<LF, LF>>))

\* cleanAndStandardize of part_002
cleanAndStandardize(content) ==
  LET mapped == StandardizeQuotes(MapPunctuation(NormalizeLineEndings(content)))
      commas == MixedCommasFrom(mapped, 1)
      dots == ReplaceRuns(commas, {46}, 3, <<46, 46, 46>>)
      before == SpaceBeforeFrom(dots, 1)
      after == SpaceAfterFrom(before, 1, WhiteSpace)
  IN Trim(ReplaceRuns(after, {LF}, 3, <<LF, LF>>))

\* a quotation mark, a space, a letter and an ideographic full stop
NormAlphabet == {QUOTE, SPACE, 97, 12290}

\* the longer strings are drawn without the full stop
QuoteAlphabet == {QUOTE, SPACE, 97}

InitNorm ==
  /\ MainIdle
  /\ fn = "none"
  /\ arg \in Strings(NormAlphabet, MaxPunctLen) \cup Strings(QuoteAlphabet, MaxTextLen)
  /\ ret = <<>>
  /\ prev = <<>>
  /\ phase = 0
  /\ frame = <<>>

CleanTextCall ==
  /\ phase < 2
  /\ fn \in {"none", "cleanText"}
  /\ fn' = "cleanText"
  /\ prev' = ret
  /\ ret' = cleanText(IF phase = 0 THEN arg ELSE ret)
  /\ phase' = phase + 1
  /\ UNCHANGED <<arg, frame, mainVars>>

CleanAndStandardizeCall ==
  /\ phase < 2
  /\ fn \in {"none", "cleanAndStandardize"}
  /\ fn' = "cleanAndStandardize"
  /\ prev' = ret
  /\ ret' = cleanAndStandardize(IF phase = 0 THEN arg ELSE ret)
  /\ phase' = phase + 1
  /\ UNCHANGED <<arg, frame, mainVars>>

NextNorm == CleanTextCall \/ CleanAndStandardizeCall

SpecNorm == InitNorm /\ [][NextNorm]_vars

\* C8: the extended normalisers are idempotent: a second call of cleanText or
\* of cleanAndStandardize on the result of the first changes nothing.
C8_ExtendedIdempotent == phase = 2 => ret = prev

\* the part of C8 about cleanAndStandardize alone
CleanAndStandardizeIdempotent ==
  (phase = 2 /\ fn = "cleanAndStandardize") => ret = prev

(***************************************************************************)
(* CompressionManager.saveAsZip / readZip and saveCompressedJson /         *)
(* readCompressedJson: JSON text, its UTF-8 bytes, their compression and   *)
(* the container, and the way back.                                        *)
(***************************************************************************)
JsStr(s) == [t |-> "string", v |-> s]
JsArr(a) == [t |-> "array", v |-> a]
\* an object: its members in insertion order, <<key, value>>
JsObj(m) == [t |-> "object", v |-> m]

K_chapters == <<99, 104, 97, 112, 116, 101, 114, 115>>
K_title == <<116, 105, 116, 108, 101>>
K_content == <<99, 111, 110, 116, 101, 110, 116>>

\* { chapters }: the value handed to saveAsZip and saveCompressedJson
Collection(chapters) ==
  JsObj(<< <<K_chapters,
             JsArr([j \in 1..Len(chapters) |->
                      JsObj(<< <<K_title, JsStr(chapters[j].title)>>,
                               <<K_content, JsStr(chapters[j].content)>> >>)])>> >>)

HexDigit(n) == IF n < 10 THEN 48 + n ELSE 87 + n

\* \uXXXX
UnicodeEscape(c) ==
  <<BACKSLASH, 117, HexDigit(c \div 4096), HexDigit((c \div 256) % 16),
    HexDigit((c \div 16) % 16), HexDigit(c % 16)>>

\* an escaping that covers the quotation mark and the control characters only
EscapeCharNoBackslash(c) ==
  CASE c = QUOTE -> <<BACKSLASH, QUOTE>>
    [] c = LF -> <<BACKSLASH, 110>>
    [] c = CR -> <<BACKSLASH, 114>>
    [] c \in 0..31 \ {LF, CR} -> UnicodeEscape(c)
    [] OTHER -> <<c>>

\* QuoteJSONString of JSON.stringify, one code unit that is no surrogate
EscapeChar(c) ==
  CASE c = QUOTE -> <<BACKSLASH, QUOTE>>
    [] c = BACKSLASH -> <<BACKSLASH, BACKSLASH>>
    [] c = 8 -> <<BACKSLASH, 98>>
    [] c = 12 -> <<BACKSLASH, 102>>
    [] c = LF -> <<BACKSLASH, 110>>
    [] c = CR -> <<BACKSLASH, 114>>
    [] c = 9 -> <<BACKSLASH, 116>>
    [] c \in 0..31 \ {8, 9, LF, 12, CR} -> UnicodeEscape(c)
    [] OTHER -> <<c>>

HighSurrogate == 55296..56319
LowSurrogate == 56320..57343

RECURSIVE QuoteFrom(_, _)
QuoteFrom(s, k) ==
  IF k > Len(s) THEN <<>>
  ELSE IF s[k] \in HighSurrogate /\ k + 1 <= Len(s) /\ s[k + 1] \in LowSurrogate
    THEN <<s[k], s[k + 1]>> \o QuoteFrom(s, k + 2)
  ELSE IF s[k] \in HighSurrogate \cup LowSurrogate
    THEN UnicodeEscape(s[k]) \o QuoteFrom(s, k + 1)
  ELSE EscapeChar(s[k]) \o QuoteFrom(s, k + 1)

QuoteJSONString(s) == <<QUOTE>> \o QuoteFrom(s, 1) \o <<QUOTE>>

RECURSIVE JSON_stringify(_)
RECURSIVE StringifyElements(_, _)
RECURSIVE StringifyMembers(_, _)
StringifyElements(a, k) ==
  IF k > Len(a) THEN <<>>
  ELSE (IF k > 1 THEN <<44>> ELSE <<>>) \o JSON_stringify(a[k])
         \o StringifyElements(a, k + 1)

StringifyMembers(m, k) ==
  IF k > Len(m) THEN <<>>
  ELSE (IF k > 1 THEN <<44>> ELSE <<>>) \o QuoteJSONString(m[k][1]) \o <<58>>
         \o JSON_stringify(m[k][2]) \o StringifyMembers(m, k + 1)

JSON_stringify(value) ==
  IF value.t = "string" THEN QuoteJSONString(value.v)
  ELSE IF value.t = "array" THEN <<91>> \o StringifyElements(value.v, 1) \o <<93>>
  ELSE <<123>> \o StringifyMembers(value.v, 1) \o <<125>>

ParseError == [ok |-> FALSE, v |-> <<>>, next |-> 0]

HexValue(c) ==
  IF c \in 48..57 THEN c - 48
  ELSE IF c \in 97..102 THEN c - 87
  ELSE IF c \in 65..70 THEN c - 55
  ELSE -1

\* the character a one-letter escape stands for, -1 when there is none
SimpleEscape(c) ==
  CASE c \in {QUOTE, BACKSLASH, 47} -> c
    [] c = 98 -> 8
    [] c = 102 -> 12
    [] c = 110 -> LF
    [] c = 114 -> CR
    [] c = 116 -> 9
    [] OTHER -> -1

RECURSIVE ParseChars(_, _, _)
\* the characters of a string literal from s[k] to its closing quotation mark
ParseChars(s, k, acc) ==
  IF k > Len(s) \/ s[k] < 32 THEN ParseError
  ELSE IF s[k] = QUOTE THEN [ok |-> TRUE, v |-> acc, next |-> k + 1]
  ELSE IF s[k] # BACKSLASH THEN ParseChars(s, k + 1, Append(acc, s[k]))
  ELSE IF k + 1 > Len(s) THEN ParseError
  ELSE IF s[k + 1] = 117
    THEN IF /\ k + 5 <= Len(s)
            /\ \A x \in 2..5 : HexValue(s[k + x]) >= 0
           THEN ParseChars(s, k + 6,
                  Append(acc, HexValue(s[k + 2]) * 4096 + HexValue(s[k + 3]) * 256
                                + HexValue(s[k + 4]) * 16 + HexValue(s[k + 5])))
           ELSE ParseError
  ELSE IF SimpleEscape(s[k + 1]) >= 0
    THEN ParseChars(s, k + 2, Append(acc, SimpleEscape(s[k + 1])))
  ELSE ParseError

RECURSIVE ParseValue(_, _)
RECURSIVE ParseElements(_, _, _)
RECURSIVE ParseMembers(_, _, _)
ParseElements(s, k, acc) ==
  LET e == ParseValue(s, k)
  IN IF ~e.ok \/ e.next > Len(s) THEN ParseError
     ELSE IF s[e.next] = 44 THEN ParseElements(s, e.next + 1, Append(acc, e.v))
     ELSE IF s[e.next] = 93
       THEN [ok |-> TRUE, v |-> JsArr(Append(acc, e.v)), next |-> e.next + 1]
     ELSE ParseError

ParseMembers(s, k, acc) ==
  IF k > Len(s) \/ s[k] # QUOTE THEN ParseError
  ELSE LET key == ParseChars(s, k + 1, <<>>)
       IN IF ~key.ok \/ key.next > Len(s) \/ s[key.next] # 58 THEN ParseError
          ELSE LET e == ParseValue(s, key.next + 1)
               IN IF ~e.ok \/ e.next > Len(s) THEN ParseError
                  ELSE IF s[e.next] = 44
                    THEN ParseMembers(s, e.next + 1, Append(acc, <<key.v, e.v>>))
                  ELSE IF s[e.next] = 125
                    THEN [ok |-> TRUE, v |-> JsObj(Append(acc, <<key.v, e.v>>)),
                          next |-> e.next + 1]
                  ELSE ParseError

\* a string, an array or an object: the values the scripts write
ParseValue(s, k) ==
  IF k > Len(s) THEN ParseError
  ELSE IF s[k] = QUOTE
    THEN LET r == ParseChars(s, k + 1, <<>>)
         IN IF r.ok THEN [ok |-> TRUE, v |-> JsStr(r.v), next |-> r.next] ELSE ParseError
  ELSE IF s[k] = 91
    THEN IF k + 1 <= Len(s) /\ s[k + 1] = 93
           THEN [ok |-> TRUE, v |-> JsArr(<<>>), next |-> k + 2]
           ELSE ParseElements(s, k + 1, <<>>)
  ELSE IF s[k] = 123
    THEN IF k + 1 <= Len(s) /\ s[k + 1] = 125
           THEN [ok |-> TRUE, v |-> JsObj(<<>>), next |-> k + 2]
           ELSE ParseMembers(s, k + 1, <<>>)
  ELSE ParseError

\* ok = FALSE stands for the SyntaxError thrown
JSON_parse(s) ==
  LET r == ParseValue(s, 1)
  IN IF r.ok /\ r.next = Len(s) + 1 THEN [ok |-> TRUE, v |-> r.v] ELSE [ok |-> FALSE, v |-> <<>>]

\* the bytes of the code unit at k: a surrogate pair is four bytes, given at
\* its first unit
Utf8Bytes(s, k) ==
  LET c == s[k]
  IN IF c < 128 THEN <<c>>
     ELSE IF c < 2048 THEN <<192 + (c \div 64), 128 + (c % 64)>>
     ELSE IF c \in HighSurrogate /\ k + 1 <= Len(s) /\ s[k + 1] \in LowSurrogate
       THEN LET cp == 65536 + (c - 55296) * 1024 + (s[k + 1] - 56320)
            IN <<240 + (cp \div 262144), 128 + ((cp \div 4096) % 64),
                 128 + ((cp \div 64) % 64), 128 + (cp % 64)>>
     ELSE IF c \in LowSurrogate /\ k > 1 /\ s[k - 1] \in HighSurrogate THEN <<>>
     ELSE IF c \in HighSurrogate \cup LowSurrogate THEN <<239, 191, 189>>
     ELSE <<224 + (c \div 4096), 128 + ((c \div 64) % 64), 128 + (c % 64)>>

\* Buffer.from(str, 'utf8')
Utf8Encode(s) == Flatten([k \in 1..Len(s) |-> Utf8Bytes(s, k)])

\* The compression of zlib, as the lossless coding of runs: <<length, byte>>.
Deflate(b) ==
  Flatten([k \in 1..Len(b) |->
             IF k > 1 /\ b[k - 1] = b[k] THEN <<>>
             ELSE <<<<RunLen(b, k, {b[k]}), b[k]>>>>])

Inflate(z) == Flatten([r \in 1..Len(z) |-> [x \in 1..z[r][1] |-> z[r][2]]])

\* an archive whose entry is stored under another name than the one read
ZipEntryNameOther == "chapters.json"

\* zip.file('data.json', jsonStr)
ZipEntryName == "data.json"

\* zip.generateAsync({type: 'nodebuffer', compression: 'DEFLATE', ...}) of saveAsZip
ZipContent(data) ==
  [container |-> "zip",
   entries |-> << [name |-> ZipEntryName,
                   data |-> Deflate(Utf8Encode(JSON_stringify(data)))] >>]

\* gzipSync(jsonStr, { level: 9 }) of saveCompressedJson
GzipContent(data) ==
  [container |-> "gzip", data |-> Deflate(Utf8Encode(JSON_stringify(data)))]

\* a write by way of a second file beside the path, which it leaves behind
WriteFileWithCopy(dir, path, content) ==
  [q \in DOMAIN dir \cup {path, path \o <<126>>} |->
     IF q \in {path, path \o <<126>>} THEN content ELSE dir[q]]

\* fs.writeFile(outputPath, content)
WriteFile(dir, path, content) ==
  [q \in DOMAIN dir \cup {path} |-> IF q = path THEN content ELSE dir[q]]

\* a read that takes an archive without the entry for an empty collection
readZipOrEmpty(zipData) ==
  IF zipData.container # "zip" THEN [ok |-> FALSE, v |-> <<>>]
  ELSE LET found == {e \in 1..Len(zipData.entries) :
                       zipData.entries[e].name = "data.json"}
       IN IF found = {} THEN [ok |-> TRUE, v |-> Collection(<<>>)]
          ELSE JSON_parse(Utf8ToString(
                 Inflate(zipData.entries[CHOOSE e \in found : TRUE].data)))

\* readZip: the parsed entry 'data.json'; ok = FALSE stands for a throw
readZip(zipData) ==
  IF zipData.container # "zip" THEN [ok |-> FALSE, v |-> <<>>]
  ELSE LET found == {e \in 1..Len(zipData.entries) :
                       zipData.entries[e].name = "data.json"}
       IN IF found = {} THEN [ok |-> FALSE, v |-> <<>>]
          ELSE JSON_parse(Utf8ToString(
                 Inflate(zipData.entries[CHOOSE e \in found : TRUE].data)))

\* readCompressedJson: JSON.parse(gunzipSync(compressed).toString('utf8'))
readCompressedJson(compressed) ==
  IF compressed.container # "gzip" THEN [ok |-> FALSE, v |-> <<>>]
  ELSE JSON_parse(Utf8ToString(Inflate(compressed.data)))

\* the chapters a collection is drawn from: titles and contents with the
\* characters that JSON escapes, a character of several bytes and a lone surrogate
ChapterSet ==
  [title : {<<Di, 49, Zhang>>, <<97, QUOTE>>},
   content : {<<>>, <<QUOTE, 44, QUOTE>>, <<BACKSLASH, 110>>, <<LF, LF, 97>>,
              <<20016, 55296>>}]

ArtifactPath == "artifact"

InitCodec ==
  /\ MainIdle
  /\ fn = "none"
  /\ \E chapters \in UNION {[1..n -> ChapterSet] : n \in 0..MaxChapters} :
       arg = Collection(chapters)
  /\ ret = <<>>
  /\ prev = <<>>
  /\ phase = 0
  /\ frame = <<>>

SaveAsZipCall ==
  /\ phase = 0
  /\ fn' = "zip"
  /\ outputDir' = WriteFile(outputDir, ArtifactPath, ZipContent(arg))
  /\ phase' = 1
  /\ UNCHANGED <<arg, ret, prev, frame, mainPc, i, textFiles, pc, inputDir, selectedFiles, log>>

ReadZipCall ==
  /\ phase \in {1, 3}
  /\ fn = "zip"
  /\ ret' = readZip(outputDir[ArtifactPath])
  /\ phase' = phase + 1
  /\ UNCHANGED <<fn, arg, prev, frame, mainVars>>

SaveCompressedJsonCall ==
  /\ phase = 0
  /\ fn' = "gzip"
  /\ outputDir' = WriteFile(outputDir, ArtifactPath, GzipContent(arg))
  /\ phase' = 1
  /\ UNCHANGED <<arg, ret, prev, frame, mainPc, i, textFiles, pc, inputDir, selectedFiles, log>>

ReadCompressedJsonCall ==
  /\ phase \in {1, 3}
  /\ fn = "gzip"
  /\ ret' = readCompressedJson(outputDir[ArtifactPath])
  /\ phase' = phase + 1
  /\ UNCHANGED <<fn, arg, prev, frame, mainVars>>

\* texts that are no JSON, made of the text of a collection: cut short at its
\* start, after its first character, in its middle and before its last
\* character, and with a brace too many
NotJson(text) ==
  {SubSeq(text, 1, n) : n \in {0, 1, Len(text) \div 2, Len(text) - 1}}
    \cup {text \o <<125>>}

\* the archives that lack the entry read: one with no entry, one with the
\* collection under another name
EntryMissing(data) ==
  { [container |-> "zip", entries |-> <<>>],
    [container |-> "zip",
     entries |-> << [name |-> ZipEntryNameOther,
                     data |-> Deflate(Utf8Encode(JSON_stringify(data)))] >>] }

\* well-formed containers whose bytes are no JSON
EntryNotJson(container, data) ==
  { IF container = "zip"
      THEN [container |-> "zip",
            entries |-> << [name |-> ZipEntryName, data |-> Deflate(Utf8Encode(text))] >>]
      ELSE [container |-> "gzip", data |-> Deflate(Utf8Encode(text))] :
    text \in NotJson(JSON_stringify(data)) }

\* the file at the path of the artifact is not what the script wrote: it is
\* replaced between the save and the read
ArtifactDamaged ==
  /\ phase = 1
  /\ \/ /\ fn = "zip"
        /\ prev' = <<"missing">>
        /\ \E damaged \in EntryMissing(arg) :
             outputDir' = WriteFile(outputDir, ArtifactPath, damaged)
     \/ /\ prev' = <<"notJson">>
        /\ \E damaged \in EntryNotJson(fn, arg) :
             outputDir' = WriteFile(outputDir, ArtifactPath, damaged)
  /\ phase' = 3
  /\ UNCHANGED <<fn, arg, ret, frame, mainPc, i, textFiles, pc, inputDir, selectedFiles, log>>

NextCodec ==
  \/ SaveAsZipCall
  \/ ReadZipCall
  \/ SaveCompressedJsonCall
  \/ ReadCompressedJsonCall
  \/ ArtifactDamaged

SpecCodec == InitCodec /\ [][NextCodec]_vars

\* the value of member key of an object
Member(obj, key) == obj.v[CHOOSE m \in 1..Len(obj.v) : obj.v[m][1] = key][2]

\* C4: reading back the artifact written for a collection returns a collection
\* equal to it: as many chapters, in the same order, with the same title and
\* content strings.
C4_RoundTrip ==
  phase = 2 =>
    /\ ret.ok
    /\ ret.v = arg
    /\ LET written == Member(arg, K_chapters).v
           read == Member(ret.v, K_chapters).v
       IN /\ Len(read) = Len(written)
          /\ \A j \in 1..Len(written) :
               /\ Member(read[j], K_title) = Member(written[j], K_title)
               /\ Member(read[j], K_content) = Member(written[j], K_content)

\* two different chapters read back from a zip archive, one with a backslash
\* in its content and one with quotation marks
C4_Witness ==
  /\ phase = 2
  /\ fn = "zip"
  /\ ret.ok
  /\ LET read == Member(ret.v, K_chapters).v
     IN /\ Len(read) = 2
        /\ Contains(Member(read[1], K_content).v, {BACKSLASH})
        /\ Contains(Member(read[2], K_content).v, {QUOTE})
        /\ Contains(Member(read[2], K_title).v, {QUOTE})

(***************************************************************************)
(* main, FileManager.processAllTextFiles and FileManager.processTextFile.  *)
(***************************************************************************)
MAX_CONCURRENT_FILES == 5

DotTxt == <<46, 116, 120, 116>>
DotZip == <<46, 122, 105, 112>>

\* f.endsWith(suffix)
EndsWith(f, suffix) ==
  /\ Len(f) >= Len(suffix)
  /\ SubSeq(f, Len(f) - Len(suffix) + 1, Len(f)) = suffix

\* path.basename(file, ext) of a name without a directory: of the name that
\* is the extension and nothing else Node returns the empty string
Basename(file, ext) ==
  IF EndsWith(file, ext)
    THEN SubSeq(file, 1, Len(file) - Len(ext))
    ELSE file

\* an artifact named by appending to the whole name of the input
OutputPathKeepingExt(file) == file \o DotZip

\* path.join(CONFIG.OUTPUT_DIR, `${path.basename(file, '.txt')}.zip`)
OutputPath(file) == Basename(file, DotTxt) \o DotZip

\* the text files of the input directory, "a.txt", "b.txt", ..., in the order
\* readdir lists them, and an entry that is no text file
TextName(n) == <<96 + n>> \o DotTxt
OtherEntry == <<110, 46, 109, 100>>
Entries == [n \in 1..(NumFiles + 1) |-> IF n <= NumFiles THEN TextName(n) ELSE OtherEntry]

\* what the files hold: a novel in UTF-8 and one in GB18030 ("第1章", a line
\* break, "a"), a text without a heading, a byte that no encoding decodes
FileContents ==
  << <<231, 172, 172, 49, 231, 171, 160, LF, 97>>,
     <<97>>,
     <<181, 218, 49, 213, 194, LF, 97>>,
     <<255>> >>

RECURSIVE SelectSeq2(_, _)
SelectTxt(f) == EndsWith(f, DotTxt)
\* entries.filter(f => f.endsWith('.txt'))
SelectSeq2(entries, k) ==
  IF k > Len(entries) THEN <<>>
  ELSE (IF SelectTxt(entries[k]) THEN <<entries[k]>> ELSE <<>>)
         \o SelectSeq2(entries, k + 1)

Min(a, b) == IF a < b THEN a ELSE b

\* a slice one file longer than the configured batch
BatchOffByOne(files, from) ==
  SubSeq(files, from + 1, Min(from + MAX_CONCURRENT_FILES + 1, Len(files)))

\* textFiles.slice(i, i + CONFIG.MAX_CONCURRENT_FILES)
Batch(files, from) ==
  SubSeq(files, from + 1, Min(from + MAX_CONCURRENT_FILES, Len(files)))

Range(seq) == {seq[k] : k \in 1..Len(seq)}

Active == {"readFile", "detectEncoding", "extractChapters", "generateAsync", "writeFile"}
Settled == {"ok", "warn", "err", "rejected"}

\* a batch that is over as soon as one of its files has settled
PromiseAny(files) ==
  IF \E f \in Range(files) : pc[f] = "rejected" THEN "rejected"
  ELSE IF \E f \in Range(files) : pc[f] \in Settled THEN "fulfilled"
  ELSE "pending"

\* Promise.all(batch.map(file => this.processTextFile(file)))
PromiseAll(files) ==
  IF \E f \in Range(files) : pc[f] = "rejected" THEN "rejected"
  ELSE IF \A f \in Range(files) : pc[f] \in Settled THEN "fulfilled"
  ELSE "pending"

\* a try block that ends before the call of saveAsZip
OnErrorWriteEscapes(stage) ==
  IF stage \in {"generateAsync", "writeFile"} THEN "rejected" ELSE "err"

\* catch (error) { console.error(...) }: the try block holds every await of
\* processTextFile, so an error at any stage ends as a logged error
OnError(stage) == "err"

\* a chain whose decoded text is one variable of the module, shared by the files
\* of a batch: the file that decodes last leaves its text to all of them
ChaptersOfShared(buffer) ==
  extractChapters(detectEncoding(inputDir[textFiles[Min(i + MAX_CONCURRENT_FILES,
                                                       Len(textFiles))]]).content)

\* the chapters processTextFile extracts from a buffer that was read
ChaptersOf(buffer) == extractChapters(detectEncoding(buffer).content)

\* the artifact that an earlier run left in the output directory, for the
\* second file
Stale == [container |-> "stale"]

\* the command lines: no name; a name without the extension; a name twice,
\* with the extension and without; a name that no file has; the name of an
\* entry that is no text file beside a name that a file has
Filters ==
  { <<>>,
    << <<97>> >>,
    << TextName(2), <<98>> >>,
    << <<122>> >>,
    << OtherEntry, <<99>> >> }

\* selectedFiles.map(f => f.endsWith('.txt') ? f : `${f}.txt`)
Normalized(names) ==
  [k \in 1..Len(names) |->
     IF EndsWith(names[k], DotTxt) THEN names[k] ELSE names[k] \o DotTxt]

\* a filter that compares the names as they were given
FilterSelectedRaw(files, names) ==
  IF Len(names) > 0
    THEN SelectSeq(files, LAMBDA f : f \in Range(names))
    ELSE files

\* if (selectedFiles.length > 0) textFiles = textFiles.filter(f => normalized.includes(f))
FilterSelected(files, names) ==
  IF Len(names) > 0
    THEN SelectSeq(files, LAMBDA f : f \in Range(Normalized(names)))
    ELSE files

\* console.log of saveAsZip: the name of the artifact and the two sizes
SuccessLine(f, data) ==
  [tag |-> "success", file |-> OutputPath(f),
   originalSize |-> Len(Utf8Encode(JSON_stringify(data))),
   compressedSize |-> Len(ZipContent(data).entries[1].data)]

\* console.warn(`No chapters found in ${file}`)
WarningLine(f) == [tag |-> "warning", file |-> f]

\* console.error(`Error processing ${file}:`, error.message)
ErrorLine(f) == [tag |-> "error", file |-> f]

\* a catch that swallows the error without a line on the console
ThrowSilently(f, stage) ==
  /\ pc' = [pc EXCEPT ![f] = "err"]
  /\ log' = log

\* a catch that reports the error and throws it again
Rethrow(f, stage) ==
  /\ pc' = [pc EXCEPT ![f] = "rejected"]
  /\ log' = [log EXCEPT ![f] = Append(@, ErrorLine(f))]

\* an await of processTextFile throws at the given stage
Throw(f, stage) ==
  /\ pc' = [pc EXCEPT ![f] = OnError(stage)]
  /\ log' = IF OnError(stage) = "err"
              THEN [log EXCEPT ![f] = Append(@, ErrorLine(f))]
              ELSE log

\* a test that lets every chapter list through to saveAsZip
NoChaptersNever(chapters) == FALSE

\* if (chapters.length === 0)
NoChapters(chapters) == Len(chapters) = 0

Init ==
  /\ mainPc = "ensureDir"
  /\ i = 0
  /\ textFiles = <<>>
  /\ \E shift \in 0..(Len(FileContents) - 1) :
       inputDir = [f \in Range(Entries) |->
                     LET n == CHOOSE k \in 1..Len(Entries) : Entries[k] = f
                     IN FileContents[((n + shift) % Len(FileContents)) + 1]]
  /\ pc = [f \in {e \in Range(Entries) : SelectTxt(e)} |-> "idle"]
  /\ log = [f \in {e \in Range(Entries) : SelectTxt(e)} |-> <<>>]
  /\ outputDir = WriteFile(<<>>, OutputPath(TextName(2)), Stale)
  /\ selectedFiles \in Filters
  /\ fn = "main"
  /\ arg = <<>>
  /\ ret = <<>>
  /\ prev = <<>>
  /\ phase = 0
  /\ frame = <<>>

\* await fs.ensureDir(CONFIG.INPUT_DIR); await fs.ensureDir(CONFIG.OUTPUT_DIR)
EnsureDir ==
  /\ mainPc = "ensureDir"
  /\ \/ mainPc' = "extractZips"
     \/ mainPc' = "fatal"
  /\ UNCHANGED <<i, textFiles, pc, inputDir, outputDir, selectedFiles, log, callVars>>

\* await FileManager.processZipFiles(): the directory holds no archive; its
\* readdir is outside its try block
ProcessZipFiles ==
  /\ mainPc = "extractZips"
  /\ \/ mainPc' = "readdir"
     \/ mainPc' = "fatal"
  /\ UNCHANGED <<i, textFiles, pc, inputDir, outputDir, selectedFiles, log, callVars>>

\* let textFiles = (await fs.readdir(CONFIG.INPUT_DIR)).filter(...), then the
\* filter by the names of the command line
Readdir ==
  /\ mainPc = "readdir"
  /\ \/ /\ textFiles' = FilterSelected(SelectSeq2(Entries, 1), selectedFiles)
        /\ i' = 0
        /\ mainPc' = "loop"
     \/ /\ mainPc' = "fatal"
        /\ UNCHANGED <<textFiles, i>>
  /\ UNCHANGED <<pc, inputDir, outputDir, selectedFiles, log, callVars>>

\* one turn of the for loop up to its await: every file of the batch runs to
\* its first await, fs.readFile
StartBatch ==
  /\ mainPc = "loop"
  /\ i < Len(textFiles)
  /\ pc' = [f \in DOMAIN pc |->
              IF f \in Range(Batch(textFiles, i)) THEN "readFile" ELSE pc[f]]
  /\ mainPc' = "awaitBatch"
  /\ UNCHANGED <<i, textFiles, inputDir, outputDir, selectedFiles, log, callVars>>

\* the await of the loop resumes: the next turn, or the rejection goes up to
\* the catch of main
BatchSettled ==
  /\ mainPc = "awaitBatch"
  /\ PromiseAll(Batch(textFiles, i)) # "pending"
  /\ IF PromiseAll(Batch(textFiles, i)) = "rejected"
       THEN mainPc' = "fatal" /\ UNCHANGED i
       ELSE mainPc' = "loop" /\ i' = i + MAX_CONCURRENT_FILES
  /\ UNCHANGED <<textFiles, pc, inputDir, outputDir, selectedFiles, log, callVars>>

\* the loop is over: console.log('\nProcessing complete!')
Complete ==
  /\ mainPc = "loop"
  /\ i >= Len(textFiles)
  /\ mainPc' = "complete"
  /\ UNCHANGED <<i, textFiles, pc, inputDir, outputDir, selectedFiles, log, callVars>>

\* const buffer = await fs.readFile(inputPath)
ReadFileDone(f) ==
  /\ mainPc = "awaitBatch"
  /\ pc[f] = "readFile"
  /\ \/ pc' = [pc EXCEPT ![f] = "detectEncoding"] /\ UNCHANGED log
     \/ Throw(f, "readFile")
  /\ UNCHANGED <<mainPc, i, textFiles, inputDir, outputDir, selectedFiles, callVars>>

\* const { content } = await TextProcessor.detectEncoding(buffer)
DetectEncodingDone(f) ==
  /\ mainPc = "awaitBatch"
  /\ pc[f] = "detectEncoding"
  /\ IF detectEncoding(inputDir[f]).ok
       THEN pc' = [pc EXCEPT ![f] = "extractChapters"] /\ UNCHANGED log
       ELSE Throw(f, "detectEncoding")
  /\ UNCHANGED <<mainPc, i, textFiles, inputDir, outputDir, selectedFiles, callVars>>

\* const chapters = await TextProcessor.extractChapters(content); without a
\* chapter the warning and the return, otherwise saveAsZip up to generateAsync
ExtractChaptersDone(f) ==
  /\ mainPc = "awaitBatch"
  /\ pc[f] = "extractChapters"
  /\ IF NoChapters(ChaptersOf(inputDir[f]))
       THEN /\ pc' = [pc EXCEPT ![f] = "warn"]
            /\ log' = [log EXCEPT ![f] = Append(@, WarningLine(f))]
       ELSE /\ pc' = [pc EXCEPT ![f] = "generateAsync"]
            /\ UNCHANGED log
  /\ UNCHANGED <<mainPc, i, textFiles, inputDir, outputDir, selectedFiles, callVars>>

\* const zipContent = await zip.generateAsync(...)
GenerateAsyncDone(f) ==
  /\ mainPc = "awaitBatch"
  /\ pc[f] = "generateAsync"
  /\ \/ pc' = [pc EXCEPT ![f] = "writeFile"] /\ UNCHANGED log
     \/ Throw(f, "generateAsync")
  /\ UNCHANGED <<mainPc, i, textFiles, inputDir, outputDir, selectedFiles, callVars>>

\* what a write that failed half-way leaves at the path
Truncated == [container |-> "truncated"]

\* await fs.writeFile(outputPath, zipContent), then the metrics and the
\* console.log: the file is written; or the write fails, before the file is
\* opened or after
WriteFileDone(f) ==
  /\ mainPc = "awaitBatch"
  /\ pc[f] = "writeFile"
  /\ \/ /\ outputDir' = WriteFile(outputDir, OutputPath(f),
                                  ZipContent(Collection(ChaptersOf(inputDir[f]))))
        /\ pc' = [pc EXCEPT ![f] = "ok"]
        /\ log' = [log EXCEPT ![f] =
                     Append(@, SuccessLine(f, Collection(ChaptersOf(inputDir[f]))))]
     \/ /\ UNCHANGED outputDir
        /\ Throw(f, "writeFile")
     \/ /\ outputDir' = WriteFile(outputDir, OutputPath(f), Truncated)
        /\ Throw(f, "writeFile")
  /\ UNCHANGED <<mainPc, i, textFiles, inputDir, selectedFiles, callVars>>

Next ==
  \/ EnsureDir
  \/ ProcessZipFiles
  \/ Readdir
  \/ StartBatch
  \/ BatchSettled
  \/ Complete
  \/ \E f \in DOMAIN pc :
       \/ ReadFileDone(f)
       \/ DetectEncodingDone(f)
       \/ ExtractChaptersDone(f)
       \/ GenerateAsyncDone(f)
       \/ WriteFileDone(f)

Spec == Init /\ [][Next]_vars

InFlight == {f \in DOMAIN pc : pc[f] \in Active}

\* the number of the batch a selected file is in
BatchNo(f) ==
  ((CHOOSE k \in 1..Len(textFiles) : textFiles[k] = f) - 1) \div MAX_CONCURRENT_FILES

\* C1: at no time are more than MAX_CONCURRENT_FILES files between the start
\* of processTextFile and its settling.
C1_AtMostFiveInFlight == Cardinality(InFlight) <= MAX_CONCURRENT_FILES

\* more files than a batch holds, a full batch in flight at different awaits
C1_Witness ==
  /\ Len(textFiles) > MAX_CONCURRENT_FILES
  /\ Cardinality(InFlight) = MAX_CONCURRENT_FILES
  /\ \E f, g \in InFlight : pc[f] = "writeFile" /\ pc[g] = "readFile"

\* C2: a file of a later batch has not started while a file of an earlier
\* batch has not settled, whatever the outcomes of the earlier batch.
C2_BatchesDoNotOverlap ==
  \A f, g \in Range(textFiles) :
    (BatchNo(f) < BatchNo(g) /\ pc[g] # "idle") => pc[f] \in Settled

\* the second batch in flight after a first batch with a success, a file
\* without chapters and a failure, the failure having come first
C2_Witness ==
  /\ \E g \in InFlight : BatchNo(g) = 1
  /\ \E f \in Range(textFiles) : BatchNo(f) = 0 /\ pc[f] = "ok"
  /\ \E f \in Range(textFiles) : BatchNo(f) = 0 /\ pc[f] = "warn"
  /\ \E f \in Range(textFiles) : BatchNo(f) = 0 /\ pc[f] = "err"

\* the file decodes and has at least one chapter
Segmentable(f) ==
  /\ detectEncoding(inputDir[f]).ok
  /\ Len(ChaptersOf(inputDir[f])) > 0

\* C3: whichever files fail, the failure stays with the file: the run is never
\* ended by it, the loop never waits for a batch none of whose files is still
\* in flight, and when the run completes
\* every selected file has settled and every file that decodes, has a chapter
\* and did not fail itself has its artifact in the output directory.
C3_FailuresAreIsolated ==
  /\ mainPc = "fatal" => \A f \in DOMAIN pc : pc[f] = "idle"
  /\ \A f \in DOMAIN pc : pc[f] # "rejected"
  /\ mainPc = "awaitBatch" =>
       \/ PromiseAll(Batch(textFiles, i)) # "pending"
       \/ \E f \in Range(Batch(textFiles, i)) : pc[f] \in Active
  /\ mainPc = "complete" =>
       \A f \in Range(textFiles) :
         /\ pc[f] \in Settled
         /\ (Segmentable(f) /\ pc[f] # "err") =>
              /\ pc[f] = "ok"
              /\ OutputPath(f) \in DOMAIN outputDir
              /\ outputDir[OutputPath(f)] = ZipContent(Collection(ChaptersOf(inputDir[f])))

\* a completed run in which a read and a write failed in the first batch while
\* files of both batches have their artifacts
C3_Witness ==
  /\ mainPc = "complete"
  /\ \E f, g \in Range(textFiles) :
       /\ BatchNo(f) = 0 /\ BatchNo(g) = 0 /\ f # g
       /\ pc[f] = "err" /\ ~Segmentable(f)
       /\ pc[g] = "err" /\ Segmentable(g)
  /\ \E f \in Range(textFiles) : BatchNo(f) = 0 /\ pc[f] = "ok"
  /\ \E f \in Range(textFiles) :
       BatchNo(f) = 1 /\ pc[f] = "ok" /\ OutputPath(f) \in DOMAIN outputDir

\* the file takes a step of processTextFile
Steps(f) == pc'[f] # pc[f]

\* C11: a file whose segmentation yields no chapter ends with the warning, not
\* with an error, and that step leaves the output directory as it is; the
\* output directory changes only by the write of a file that has at least
\* one chapter, and only at the path of that file.
C11_NoChaptersNoArtifact ==
  [][/\ \A f \in DOMAIN pc :
          (pc[f] = "extractChapters" /\ Steps(f) /\ Len(ChaptersOf(inputDir[f])) = 0) =>
            /\ pc'[f] = "warn"
            /\ log'[f] = Append(log[f], WarningLine(f))
            /\ outputDir' = outputDir
     /\ outputDir' # outputDir =>
          \E g \in DOMAIN pc :
            /\ pc[g] = "writeFile" /\ Steps(g)
            /\ Len(ChaptersOf(inputDir[g])) > 0
            /\ \A q \in DOMAIN outputDir \ {OutputPath(g)} :
                 q \in DOMAIN outputDir' /\ outputDir'[q] = outputDir[q]
    ]_vars

\* a run that is over: the second file had no chapter, got the warning and the
\* artifact of the earlier run is still at its path; another file was written
C11_Witness ==
  /\ mainPc = "complete"
  /\ pc[TextName(2)] = "warn"
  /\ log[TextName(2)] = <<WarningLine(TextName(2))>>
  /\ outputDir[OutputPath(TextName(2))] = Stale
  /\ \E g \in DOMAIN pc : pc[g] = "ok" /\ outputDir[OutputPath(g)].container = "zip"

(***************************************************************************)
(* readFileSafely and processNovelFile of the cleaning script.             *)
(***************************************************************************)
\* CONFIG.maxFileSize
maxFileSize == 50 * 1024 * 1024

LineTerminators == {LF, CR, 8232, 8233}

\* /^(第[零一二三四五六七八九十百千万\d]+章\s*.+)$/gm tried at the position p of s:
\* the position behind the match, 0 without a match. \s* gives back
\* whitespace until .+ finds a character of the line it stands on.
ChapterRegexEnd(s, p) ==
  IF ~(p = 1 \/ s[p - 1] \in LineTerminators) THEN 0
  ELSE IF ~(p <= Len(s) /\ s[p] = Di) THEN 0
  ELSE LET n == RunLen(s, p + 1, Numerals)
           q == p + 1 + n
       IN IF n = 0 \/ q > Len(s) \/ s[q] # Zhang THEN 0
          ELSE LET w == RunLen(s, q + 1, WhiteSpace)
                   given == {x \in 0..w : RunLen(s, q + 1 + x, Dot) >= 1}
               IN IF given = {} THEN 0
                  ELSE LET x == CHOOSE y \in given : \A z \in given : z <= y
                       IN q + 1 + x + RunLen(s, q + 1 + x, Dot)

NoMatch == [found |-> FALSE, index |-> 0, end |-> 0]

\* chapterRegex.exec(s) with chapterRegex.lastIndex = lastIndex: the first match
\* at or behind lastIndex, as the index of its first character and the index
\* behind its last (counted from 0)
Exec(s, lastIndex) ==
  LET P == {p \in (lastIndex + 1)..Len(s) : ChapterRegexEnd(s, p) > 0}
  IN IF P = {} THEN NoMatch
     ELSE LET p == CHOOSE y \in P : \A z \in P : y <= z
          IN [found |-> TRUE, index |-> p - 1, end |-> ChapterRegexEnd(s, p) - 1]

\* s.slice(from, to)
Slice(s, from, to) == SubSeq(s, from + 1, to)

\* s.replace(/^\s*\n/, '')
StripLeadingBlank(s) ==
  LET w == RunLen(s, 1, WhiteSpace)
      K == {k \in 1..w : s[k] = LF}
  IN IF K = {} THEN s
     ELSE SubSeq(s, (CHOOSE y \in K : \A z \in K : z <= y) + 1, Len(s))

\* s.replace(/\s*\n$/, '')
StripTrailingBlank(s) ==
  IF Len(s) > 0 /\ s[Len(s)] = LF
    THEN SubSeq(s, 1, Len(s) - RunLenBack(s, Len(s), WhiteSpace))
    ELSE s

FullText == <<70, 117, 108, 108, 32, 84, 101, 120, 116>>

\* a return of the chapters as they were found
ChaptersAsFound(chapters, cleaned) == chapters

\* chapters.length > 0 ? chapters : [{ title: 'Full Text', content: cleaned }]
ChaptersOrFullText(chapters, cleaned) ==
  IF Len(chapters) > 0 THEN chapters
  ELSE <<[title |-> FullText, content |-> cleaned]>>

\* the result of processNovelFile (processedAt and the stack left out)
NovelResult(file, chapters, cleaned) ==
  [ok |-> TRUE,
   metadata |-> [sourceFile |-> file, encoding |-> "UTF-8",
                 chapterCount |-> Len(chapters)],
   chapters |-> ChaptersOrFullText(chapters, cleaned)]

\* catch (error) { return { error: error.message, file: ... } }
NovelError(file, message) == [ok |-> FALSE, error |-> message, file |-> file]

\* a size test that lets a file of any size through
TooLargeNever(size) == FALSE

\* stats.size > CONFIG.maxFileSize
TooLarge(size) == size > maxFileSize

\* readFileSafely behind the read: the decode by the encoding that chardet
\* named, and by CONFIG.encodingFallback when that text is malformed
DecodeSafely(buffer, detectedEncoding) ==
  LET content == IconvDecode(buffer, detectedEncoding)
  IN IF Contains(content, {REPLACEMENT})
          \/ (Contains(content, NonAscii) /\ ~Contains(content, CJK))
       THEN IconvDecode(buffer, "gb18030")
       ELSE content

\* the encodings chardet.detect(buffer) || 'utf8' names for the buffers of the model
Chardet == {"utf8", "gb18030"}

\* the bytes of a text in GB18030, for the characters of GB_TABLE
GbEncode(text) ==
  Flatten([k \in 1..Len(text) |->
             IF text[k] < 128 THEN <<text[k]>>
             ELSE LET t == CHOOSE t \in GB_TABLE : t[3] = text[k]
                  IN <<t[1], t[2]>>])

\* the lines of the files given to processNovelFile: a bare heading, a body
\* line, a blank line, a heading with a title
NovelLines ==
  { <<Di, 49, Zhang>>, <<97>>, <<>>, <<Di, 50, Zhang, SPACE, 98>> }

NovelBuffers ==
  {GbEncode(Join(ls, LF)) : ls \in UNION {[1..n -> NovelLines] : n \in 1..MaxNovelLines}}

\* a file: its name, the size fs.stat reports and the bytes fs.readFile
\* returns; the bytes of a file near the size limit are those of a short one
NovelFiles ==
  UNION {{[name |-> <<97>> \o DotTxt, size |-> n, buffer |-> b] :
            n \in {Len(b), maxFileSize - 1, maxFileSize, maxFileSize + 1}} :
           b \in NovelBuffers}

InitNovel ==
  /\ MainIdle
  /\ fn = "processNovelFile"
  /\ arg \in NovelFiles
  /\ ret = <<>>
  /\ prev = <<>>
  /\ phase = 0
  /\ frame = [pc |-> "stat", content |-> <<>>, cleaned |-> <<>>,
              chapters |-> <<>>, lastIndex |-> 0]

\* processNovelFile returns
NovelReturn(result) ==
  /\ ret' = result
  /\ phase' = 1
  /\ frame' = [frame EXCEPT !.pc = "returned"]

\* const stats = await fs.stat(filePath) and the test of the size
StatDone ==
  /\ frame.pc = "stat"
  /\ \/ NovelReturn(NovelError(arg.name, "stat"))
     \/ IF TooLarge(arg.size)
          THEN NovelReturn(NovelError(arg.name, "File too large"))
          ELSE frame' = [frame EXCEPT !.pc = "readFile"] /\ UNCHANGED <<ret, phase>>
  /\ UNCHANGED <<fn, arg, prev, mainVars>>

\* const buffer = await fs.readFile(filePath) and the decode behind it
ReadFileSafelyDone ==
  /\ frame.pc = "readFile"
  /\ \/ NovelReturn(NovelError(arg.name, "readFile"))
     \/ /\ \E detectedEncoding \in Chardet :
             frame' = [frame EXCEPT !.pc = "cleanText",
                                    !.content = DecodeSafely(arg.buffer, detectedEncoding)]
        /\ UNCHANGED <<ret, phase>>
  /\ UNCHANGED <<fn, arg, prev, mainVars>>

\* const cleaned = await cleanText(content)
CleanTextDone ==
  /\ frame.pc = "cleanText"
  /\ frame' = [frame EXCEPT !.pc = "while", !.cleaned = cleanText(frame.content),
                            !.chapters = <<>>, !.lastIndex = 0]
  /\ UNCHANGED <<fn, arg, ret, prev, phase, mainVars>>

\* one turn of while ((match = chapterRegex.exec(cleaned)) !== null), or the
\* return behind the loop; an exec that finds nothing sets lastIndex to 0
WhileStep ==
  /\ frame.pc = "while"
  /\ Len(frame.chapters) < MaxPushes
  /\ LET cleaned == frame.cleaned
         match == Exec(cleaned, frame.lastIndex)
         nextMatch == Exec(cleaned, match.end)
         endPos == IF nextMatch.found THEN nextMatch.index ELSE Len(cleaned)
     IN IF ~match.found
          THEN /\ ret' = NovelResult(arg.name, frame.chapters, cleaned)
               /\ phase' = 1
               /\ frame' = [frame EXCEPT !.pc = "returned", !.lastIndex = 0]
          ELSE /\ frame' = [frame EXCEPT
                   !.chapters = Append(@,
                      [title |-> Trim(Slice(cleaned, match.index, match.end)),
                       content |-> StripTrailingBlank(StripLeadingBlank(
                                     Slice(cleaned, match.end, endPos)))]),
                   !.lastIndex = IF nextMatch.found THEN nextMatch.index ELSE 0]
               /\ UNCHANGED <<ret, phase>>
  /\ UNCHANGED <<fn, arg, prev, mainVars>>

NextNovel == StatDone \/ ReadFileSafelyDone \/ CleanTextDone \/ WhileStep

SpecNovel == InitNovel /\ [][NextNovel]_vars

\* C12: when processNovelFile returns a result, a text without a heading
\* match gives exactly one chapter, titled 'Full Text', whose content is the
\* whole cleaned text; a text with a heading match gives no chapter of that
\* title.
C12_FullTextFallback ==
  (frame.pc = "returned" /\ ret.ok) =>
    LET cleaned == cleanText(GbDecode(arg.buffer))
    IN IF Exec(cleaned, 0).found
         THEN \A k \in 1..Len(ret.chapters) : ret.chapters[k].title # FullText
         ELSE ret.chapters = <<[title |-> FullText, content |-> cleaned]>>

\* a text with lines but without a heading match was returned as 'Full Text'
C12_Witness ==
  /\ frame.pc = "returned"
  /\ ret.ok
  /\ Len(ret.chapters) = 1
  /\ ret.chapters[1].title = FullText
  /\ Contains(ret.chapters[1].content, {LF})
  /\ ret.metadata.chapterCount = 0

\* C19: a file whose size is above CONFIG.maxFileSize is turned away by the
\* step behind fs.stat: processNovelFile returns an error outcome without
\* chapters and nothing was read or decoded; a file whose size is at most the
\* limit goes on to the read unless fs.stat itself failed.
C19_SizeLimit ==
  [][frame.pc = "stat" =>
       IF arg.size > 50 * 1024 * 1024
         THEN /\ frame'.pc = "returned"
              /\ ~ret'.ok
              /\ "chapters" \notin DOMAIN ret'
              /\ frame'.content = <<>>
         ELSE \/ frame'.pc = "readFile" /\ ret' = ret
              \/ frame'.pc = "returned" /\ ~ret'.ok /\ ret'.error = "stat"
    ]_vars

\* a file of exactly the limit was read, decoded and returned with chapters
C19_Witness ==
  /\ arg.size = 50 * 1024 * 1024
  /\ frame.pc = "returned"
  /\ ret.ok
  /\ frame.content # <<>>

\* the name the filter means: with '.txt' appended when it does not end in it
Meant(name) == IF EndsWith(name, DotTxt) THEN name ELSE name \o DotTxt

\* C13: once the directory is listed, the selected files are, without a name
\* on the command line, every entry ending in '.txt', and with names exactly
\* the '.txt' entries that some name means; no file is selected twice, only
\* selected files are processed, and none gets a second outcome.
C13_SelectedFiles ==
  mainPc \in {"loop", "awaitBatch", "complete"} =>
    /\ Range(textFiles) =
         {e \in Range(Entries) :
            /\ EndsWith(e, DotTxt)
            /\ \/ selectedFiles = <<>>
               \/ \E k \in 1..Len(selectedFiles) : e = Meant(selectedFiles[k])}
    /\ \A j, k \in 1..Len(textFiles) : j # k => textFiles[j] # textFiles[k]
    /\ \A f \in DOMAIN pc : pc[f] # "idle" => f \in Range(textFiles)
    /\ \A f \in DOMAIN pc : Len(log[f]) <= 1
    /\ mainPc = "complete" => \A f \in Range(textFiles) : Len(log[f]) = 1

\* the command line names the second file twice, with the extension and
\* without: the run is over and that file alone was processed, once
C13_Witness ==
  /\ mainPc = "complete"
  /\ selectedFiles = <<TextName(2), <<98>>>>
  /\ textFiles = <<TextName(2)>>
  /\ Len(log[TextName(2)]) = 1
  /\ \A f \in DOMAIN pc \ {TextName(2)} : pc[f] = "idle"

\* the name of a text file with '.txt' replaced by '.zip'
ZipNameOf(f) == SubSeq(f, 1, Len(f) - 4) \o <<46, 122, 105, 112>>

\* the paths of the output directory that hold an archive of this run
Written == {p \in DOMAIN outputDir : outputDir[p].container = "zip"}

\* C14: the archives in the output directory are exactly those of the selected
\* files whose write succeeded, one each, at the name of the file with '.txt'
\* replaced by '.zip'; such a file decoded and has a chapter, and its archive
\* holds its chapters; two text files never share an artifact path.
C14_OneArtifactPerSuccess ==
  /\ Written = {ZipNameOf(f) : f \in {g \in Range(textFiles) : pc[g] = "ok"}}
  /\ \A f \in DOMAIN pc :
       pc[f] = "ok" =>
         /\ f \in Range(textFiles)
         /\ detectEncoding(inputDir[f]).ok
         /\ Len(ChaptersOf(inputDir[f])) >= 1
         /\ outputDir[ZipNameOf(f)] = ZipContent(Collection(ChaptersOf(inputDir[f])))
  /\ \A f, g \in DOMAIN pc :
       /\ OutputPath(f) = ZipNameOf(f)
       /\ f # g => OutputPath(f) # OutputPath(g)

\* a run that is over with two archives written, a file without chapters and
\* a file whose write failed half-way
C14_Witness ==
  /\ mainPc = "complete"
  /\ Cardinality(Written) >= 2
  /\ \E f \in Range(textFiles) : pc[f] = "warn"
  /\ \E f \in Range(textFiles) :
       /\ pc[f] = "err"
       /\ OutputPath(f) \in DOMAIN outputDir
       /\ outputDir[OutputPath(f)] = Truncated

\* C15: a selected file has no line on the console while processTextFile runs
\* and exactly one when it has settled: the success line with the two sizes
\* when its archive was written, the warning when it has no chapter, the error
\* line with its name when a step threw; when the run is over every selected
\* file has its line.
C15_ExactlyOneOutcome ==
  /\ \A f \in DOMAIN pc :
       /\ pc[f] \in {"idle"} \cup Active => log[f] = <<>>
       /\ pc[f] \in Settled => Len(log[f]) = 1
       /\ pc[f] = "ok" =>
            /\ log[f][1].tag = "success"
            /\ log[f][1].originalSize > 0
            /\ log[f][1].compressedSize > 0
            /\ log[f][1].file \in Written
       /\ pc[f] = "warn" =>
            /\ log[f][1] = [tag |-> "warning", file |-> f]
            /\ Len(ChaptersOf(inputDir[f])) = 0
       /\ pc[f] = "err" => log[f][1] = [tag |-> "error", file |-> f]
  /\ mainPc = "complete" => \A f \in Range(textFiles) : pc[f] \in {"ok", "warn", "err"}

\* a run that is over with a success, a warning and an error among its lines
C15_Witness ==
  /\ mainPc = "complete"
  /\ \E f, g, h \in Range(textFiles) :
       /\ log[f][1].tag = "success"
       /\ log[g][1].tag = "warning"
       /\ log[h][1].tag = "error"

\* process.exit(1) in the catch of main; the status is 0 otherwise
ExitCode == IF mainPc = "fatal" THEN 1 ELSE 0

\* the awaits processTextFile still has before it for a file
AwaitsLeft(stage) ==
  CASE stage = "idle" -> 6
    [] stage = "readFile" -> 5
    [] stage = "detectEncoding" -> 4
    [] stage = "extractChapters" -> 3
    [] stage = "generateAsync" -> 2
    [] stage = "writeFile" -> 1
    [] OTHER -> 0

RECURSIVE AwaitsLeftIn(_, _)
AwaitsLeftIn(stages, files) ==
  IF files = {} THEN 0
  ELSE LET f == CHOOSE x \in files : TRUE
       IN AwaitsLeft(stages[f]) + AwaitsLeftIn(stages, files \ {f})

\* what is left of the loop of processAllTextFiles: the awaits of its files,
\* and its own await of the batch
WorkLeft(at, stages) ==
  2 * AwaitsLeftIn(stages, DOMAIN stages)
    + (CASE at = "awaitBatch" -> 2 [] at = "loop" -> 1 [] OTHER -> 0)

\* C16: main gets into its catch, and so to a status other than 0, only from
\* the two ensureDir calls and the two readdir calls, before any file has been
\* touched; once the loop over the files runs no step leads there however many
\* files have failed, every step brings the loop nearer its end, and the loop
\* is never stuck before 'Processing complete'.
C16_ExitOnlyOnTopLevelFailure ==
  /\ [][/\ (ExitCode' = 1 /\ ExitCode = 0) =>
             /\ mainPc \in {"ensureDir", "extractZips", "readdir"}
             /\ \A f \in DOMAIN pc : pc[f] = "idle" /\ log[f] = <<>>
        /\ mainPc \in {"loop", "awaitBatch"} =>
             /\ ExitCode' = 0
             /\ WorkLeft(mainPc', pc') < WorkLeft(mainPc, pc)]_vars
  /\ [](mainPc = "awaitBatch" =>
          \/ \E f \in Range(Batch(textFiles, i)) : pc[f] \in Active
          \/ \A f \in Range(Batch(textFiles, i)) : pc[f] \in {"ok", "warn", "err"})

\* the run is over with status 0 and every one of its files, of two batches,
\* has failed
C16_Witness ==
  /\ mainPc = "complete"
  /\ ExitCode = 0
  /\ Len(textFiles) > MAX_CONCURRENT_FILES
  /\ \A f \in Range(textFiles) : pc[f] = "err"

(***************************************************************************)
(* The sequential programs: processFiles of scripts/transform.js and       *)
(* processFiles with processFileSet of the second program of part_005.     *)
(* One file at a time, every await inside the one try block of             *)
(* processFiles.                                                           *)
(***************************************************************************)
Programs == {"transform.js", "part_005"}

DotJson == <<46, 106, 115, 111, 110>>

\* path.join(resultDir, `${path.basename(file, '.txt')}.json`)
JsonPath(file) == Basename(file, DotTxt) \o DotJson

\* buffer.toString('binary'): every byte becomes the character of its value
BinaryToString(buffer) == [k \in 1..Len(buffer) |-> buffer[k] % 256]

\* /�/.test(text)
containsMalformedUTF8(text) == Contains(text, {REPLACEMENT})

\* the text the segmenter gets: transform.js decodes the bytes as binary,
\* part_005 as UTF-8 and as binary only when that gave a replacement character
SeqContent(program, buffer) ==
  IF program = "part_005" /\ ~containsMalformedUTF8(Utf8ToString(buffer))
    THEN Utf8ToString(buffer)
    ELSE BinaryToString(buffer)

\* line.match(/^第\d+章/)
SeqHeading(line) ==
  /\ Len(line) >= 3
  /\ line[1] = Di
  /\ LET n == RunLen(line, 2, 48..57)
     IN /\ n >= 1
        /\ 2 + n <= Len(line)
        /\ line[2 + n] = Zhang

\* the loop over the lines: a heading pushes the open chapter and opens the
\* next, another line goes to the open chapter unless it is blank and the
\* chapter has no line yet
RECURSIVE SeqLoop(_, _, _, _)
SeqLoop(lines, k, chapters, cur) ==
  IF k > Len(lines)
    THEN IF cur.open THEN Append(chapters, cur) ELSE chapters
    ELSE IF SeqHeading(lines[k])
      THEN SeqLoop(lines, k + 1,
             IF cur.open THEN Append(chapters, cur) ELSE chapters,
             [open |-> TRUE, title |-> Trim(lines[k]), content |-> <<>>])
      ELSE IF cur.open /\ (Trim(lines[k]) # <<>> \/ Len(cur.content) > 0)
        THEN SeqLoop(lines, k + 1, chapters,
               [cur EXCEPT !.content = Append(@, lines[k])])
        ELSE SeqLoop(lines, k + 1, chapters, cur)

\* chapters whose lines are joined and written as they are
SeqChaptersUntrimmed(content) ==
  LET chapters == SeqLoop(Split(content, LF), 1, <<>>, NoChapter)
  IN [j \in 1..Len(chapters) |->
        [title |-> chapters[j].title,
         content |-> Join(chapters[j].content, LF)]]

\* the chapters as written: chapter.content = chapter.content.join('\n').trim()
SeqChapters(content) ==
  LET chapters == SeqLoop(Split(content, LF), 1, <<>>, NoChapter)
  IN [j \in 1..Len(chapters) |->
        [title |-> chapters[j].title,
         content |-> Trim(Join(chapters[j].content, LF))]]

\* what fs.writeJson(outputFile, { chapters }, { spaces: 2 }) leaves in the file
JsonFile(chapters) == [json |-> Collection(chapters), spaces |-> 2]

\* console.log(`Processed ${file} -> ${path.basename(outputFile)}`)
ProcessedLine(f) == [tag |-> "processed", file |-> f, output |-> JsonPath(f)]

\* the file the for loop is at
Current == textFiles[i + 1]

InitSeq ==
  /\ fn \in Programs
  /\ mainPc = "ensureDir"
  /\ i = 0
  /\ textFiles = <<>>
  /\ \E shift \in 0..(Len(FileContents) - 1) :
       inputDir = [f \in Range(Entries) |->
                     LET n == CHOOSE k \in 1..Len(Entries) : Entries[k] = f
                     IN FileContents[((n + shift) % Len(FileContents)) + 1]]
  /\ pc = [f \in {e \in Range(Entries) : SelectTxt(e)} |-> "idle"]
  /\ log = [f \in {e \in Range(Entries) : SelectTxt(e)} |-> <<>>]
  /\ outputDir = <<>>
  /\ selectedFiles \in IF fn = "part_005" THEN Filters ELSE {<<>>}
  /\ arg = <<>>
  /\ ret = <<>>
  /\ prev = <<>>
  /\ phase = 0
  /\ frame = <<>>

\* await fs.ensureDir(resultDir)
SeqEnsureDir ==
  /\ mainPc = "ensureDir"
  /\ \/ mainPc' = "readdir"
     \/ mainPc' = "fatal"
  /\ UNCHANGED <<i, textFiles, pc, inputDir, outputDir, selectedFiles, log, callVars>>

\* (await fs.readdir(dataDir)).filter(file => file.endsWith('.txt')), and in
\* part_005 the filter by the names given, with its return when none is left
SeqReaddir ==
  /\ mainPc = "readdir"
  /\ \/ /\ textFiles' = IF fn = "part_005"
                          THEN FilterSelected(SelectSeq2(Entries, 1), selectedFiles)
                          ELSE SelectSeq2(Entries, 1)
        /\ mainPc' = IF fn = "part_005" /\ Len(selectedFiles) > 0 /\ textFiles' = <<>>
                       THEN "noMatch"
                       ELSE "loop"
     \/ /\ mainPc' = "fatal"
        /\ UNCHANGED textFiles
  /\ UNCHANGED <<i, pc, inputDir, outputDir, selectedFiles, log, callVars>>

\* for (const file of files): up to the await of fs.readFile
SeqNextFile ==
  /\ mainPc = "loop"
  /\ i < Len(textFiles)
  /\ pc' = [pc EXCEPT ![Current] = "readFile"]
  /\ mainPc' = "awaitFile"
  /\ UNCHANGED <<i, textFiles, inputDir, outputDir, selectedFiles, log, callVars>>

\* the rejection of an await in the loop: nothing catches it before the catch
\* of processFiles, which ends the process
SeqThrow ==
  /\ pc' = [pc EXCEPT ![Current] = "err"]
  /\ mainPc' = "fatal"

\* await fs.readFile(filePath) of transform.js, await fs.readFile(filePath,
\* 'utf8') of part_005
SeqReadFileDone ==
  /\ mainPc = "awaitFile"
  /\ pc[Current] = "readFile"
  /\ \/ /\ pc' = [pc EXCEPT ![Current] =
                    IF fn = "part_005" /\ containsMalformedUTF8(Utf8ToString(inputDir[Current]))
                      THEN "readFileBinary"
                      ELSE "writeJson"]
        /\ UNCHANGED mainPc
     \/ SeqThrow
  /\ UNCHANGED <<i, textFiles, inputDir, outputDir, selectedFiles, log, callVars>>

\* const buffer = await fs.readFile(filePath), the second read of part_005
SeqReadFileBinaryDone ==
  /\ mainPc = "awaitFile"
  /\ pc[Current] = "readFileBinary"
  /\ \/ pc' = [pc EXCEPT ![Current] = "writeJson"] /\ UNCHANGED mainPc
     \/ SeqThrow
  /\ UNCHANGED <<i, textFiles, inputDir, outputDir, selectedFiles, log, callVars>>

\* await fs.writeJson(outputFile, { chapters }, { spaces: 2 }) and the end of
\* the turn of the loop; a write that fails leaves no file or a part of it
SeqWriteJsonDone ==
  /\ mainPc = "awaitFile"
  /\ pc[Current] = "writeJson"
  /\ \/ /\ outputDir' = WriteFile(outputDir, JsonPath(Current),
                          JsonFile(SeqChapters(SeqContent(fn, inputDir[Current]))))
        /\ log' = [log EXCEPT ![Current] = Append(@, ProcessedLine(Current))]
        /\ pc' = [pc EXCEPT ![Current] = "ok"]
        /\ mainPc' = "loop"
        /\ i' = i + 1
     \/ /\ SeqThrow
        /\ \/ outputDir' = outputDir
           \/ outputDir' = WriteFile(outputDir, JsonPath(Current), Truncated)
        /\ UNCHANGED <<i, log>>
  /\ UNCHANGED <<textFiles, inputDir, selectedFiles, callVars>>

\* the loop is over: 'All files processed successfully!' or 'Processing
\* completed successfully!'
SeqComplete ==
  /\ mainPc = "loop"
  /\ i >= Len(textFiles)
  /\ mainPc' = "complete"
  /\ UNCHANGED <<i, textFiles, pc, inputDir, outputDir, selectedFiles, log, callVars>>

NextSeq ==
  \/ SeqEnsureDir
  \/ SeqReaddir
  \/ SeqNextFile
  \/ SeqReadFileDone
  \/ SeqReadFileBinaryDone
  \/ SeqWriteJsonDone
  \/ SeqComplete

SpecSeq == InitSeq /\ [][NextSeq]_vars

\* C17: when a sequential run is over, every file that comes after a file
\* whose read or write failed has been processed: it has its line and its
\* .json file, unless its own read or write failed.
C17_LaterFilesStillProcessed ==
  mainPc \in {"complete", "fatal"} =>
    \A k, m \in 1..Len(textFiles) :
      (k < m /\ pc[textFiles[k]] = "err") =>
        \/ pc[textFiles[m]] = "err"
        \/ /\ pc[textFiles[m]] = "ok"
           /\ JsonPath(textFiles[m]) \in DOMAIN outputDir

\* C18: a read of an artifact without the entry 'data.json', or whose bytes
\* are no JSON, throws: it returns no collection, neither an empty one nor a
\* part of the one that was written.
C18_CorruptArtifactThrows ==
  phase = 4 =>
    /\ ~ret.ok
    /\ ret.v = <<>>
    /\ ret.v # Collection(<<>>)
    /\ \A n \in 0..Len(Member(arg, K_chapters).v) :
         ret.v # Collection([j \in 1..n |->
                    [title |-> Member(Member(arg, K_chapters).v[j], K_title).v,
                     content |-> Member(Member(arg, K_chapters).v[j], K_content).v]])

\* the reads of an archive of two chapters without its entry and of a gzip
\* file cut before its last character have thrown
C18_Witness ==
  /\ phase = 4
  /\ Len(Member(arg, K_chapters).v) = 2
  /\ \/ /\ fn = "zip"
        /\ prev = <<"missing">>
        /\ outputDir[ArtifactPath].entries # <<>>
     \/ /\ fn = "gzip"
        /\ prev = <<"notJson">>
        /\ Len(Inflate(outputDir[ArtifactPath].data))
             = Len(Utf8Encode(JSON_stringify(arg))) - 1

\* the lines that are headings once the whitespace around them is taken off
TrimmedHeadingLines(lines) == {k \in 1..Len(lines) : CHAPTER_REGEX(Trim(lines[k]))}

\* C20: a line is a heading exactly when, trimmed, it begins with the chapter
\* token, one or more numerals and the chapter mark: extractChapters opens one
\* chapter for every such line, a line with whitespace before its heading
\* included.
C20_HeadingAfterTrim ==
  (phase = 1 /\ fn = "extractChapters") =>
    /\ HeadingLines(arg) = TrimmedHeadingLines(arg)
    /\ Len(ret) = Cardinality(TrimmedHeadingLines(arg))

\* C21: what a file ends with is decided by its own bytes, whatever the other
\* files of its batch hold and in whatever order their steps run: its archive
\* holds the chapters of its own text, the warning is given only to a text
\* without a chapter, and two files of the same bytes that both got through
\* their reads and writes end alike, with equal archives.
C21_OutcomeDependsOnOwnBytes ==
  /\ \A f \in DOMAIN pc :
       LET own == extractChapters(detectEncoding(inputDir[f]).content)
       IN /\ pc[f] \in {"ok", "warn"} => detectEncoding(inputDir[f]).ok
          /\ pc[f] = "warn" => own = <<>>
          /\ pc[f] = "ok" =>
               /\ own # <<>>
               /\ OutputPath(f) \in DOMAIN outputDir
               /\ outputDir[OutputPath(f)] = ZipContent(Collection(own))
  /\ \A f, g \in DOMAIN pc :
       (inputDir[f] = inputDir[g] /\ pc[f] \in {"ok", "warn"} /\ pc[g] \in {"ok", "warn"}) =>
         /\ pc[f] = pc[g]
         /\ pc[f] = "ok" => outputDir[OutputPath(f)] = outputDir[OutputPath(g)]

\* two files of the same bytes in one batch have their archives, beside a file
\* of other bytes with its archive and one with the warning, while the last
\* file of the batch is still being read
C21_Witness ==
  /\ mainPc = "awaitBatch"
  /\ i = 0
  /\ \E f, g, h, w \in Range(Batch(textFiles, i)) :
       /\ f # g /\ inputDir[f] = inputDir[g]
       /\ pc[f] = "ok" /\ pc[g] = "ok"
       /\ inputDir[h] # inputDir[f] /\ pc[h] = "ok"
       /\ pc[w] = "warn"
  /\ \E f \in Range(Batch(textFiles, i)) : pc[f] = "readFile"

\* the text has two characters that are no whitespace with nothing but line
\* breaks, two or more, between them
HasParagraphBreak(s) ==
  \E p, q \in 1..Len(s) :
    /\ q >= p + 3
    /\ s[p] \notin WhiteSpace
    /\ s[q] \notin WhiteSpace
    /\ \A j \in (p + 1)..(q - 1) : s[j] = LF

\* C22: cleanContent leaves two line breaks where the text has two or more
\* line breaks between two pieces of text: the paragraphs stay on lines of
\* their own.
C22_ParagraphBreaksKept ==
  (phase = 1 /\ HasParagraphBreak(arg)) =>
    \E j \in 1..(Len(ret) - 1) : ret[j] = LF /\ ret[j + 1] = LF

\* C23: the chapters of a text do not depend on its line ending: with CR LF
\* extractChapters returns the titles and the contents it returns with LF.
C23_LineEndingsUnified ==
  (phase = 1 /\ fn = "extractChaptersCRLF") => ret = prev

(***************************************************************************)
(* The segmenters that leave out the blank lines before the first line of  *)
(* a chapter: processFiles of scripts/transform.js and processFileSet of   *)
(* part_003, run on a text given by its lines.                             *)
(***************************************************************************)
MaxBlankLines == 5

\* s.replace(/\n\s*$/, ''): from the first line break that only whitespace follows
StripFromLastBreak(s) ==
  LET b == RunLenBack(s, Len(s), WhiteSpace)
      K == {k \in (Len(s) - b + 1)..Len(s) : s[k] = LF}
  IN IF K = {} THEN s
     ELSE SubSeq(s, 1, (CHOOSE y \in K : \A z \in K : y <= z) - 1)

\* the loop of part_003: the one of transform.js with the numerals of
\* CHAPTER_REGEX in its heading
RECURSIVE Loop003(_, _, _, _)
Loop003(lines, k, chapters, cur) ==
  IF k > Len(lines)
    THEN IF cur.open THEN Append(chapters, cur) ELSE chapters
    ELSE IF CHAPTER_REGEX(lines[k])
      THEN Loop003(lines, k + 1,
             IF cur.open THEN Append(chapters, cur) ELSE chapters,
             [open |-> TRUE, title |-> Trim(lines[k]), content |-> <<>>])
      ELSE IF cur.open /\ (Trim(lines[k]) # <<>> \/ Len(cur.content) > 0)
        THEN Loop003(lines, k + 1, chapters,
               [cur EXCEPT !.content = Append(@, lines[k])])
        ELSE Loop003(lines, k + 1, chapters, cur)

\* the chapters of part_003: the join, the trim and the two replaces
Chapters003(content) ==
  LET chapters == Loop003(Split(content, LF), 1, <<>>, NoChapter)
  IN [j \in 1..Len(chapters) |->
        [title |-> chapters[j].title,
         content |-> StripFromLastBreak(StripLeadingBlank(
                       Trim(Join(chapters[j].content, LF))))]]

\* the lines the two segmenters are run on: a heading, text, text with
\* whitespace around it, and three blank lines
BlankLineSet ==
  { <<Di, 49, Zhang>>,
    <<97>>,
    <<SPACE, 97, SPACE>>,
    <<>>,
    <<SPACE>>,
    <<CR>> }

InitBlank ==
  /\ MainIdle
  /\ fn = "none"
  /\ arg \in UNION {[1..n -> BlankLineSet] : n \in 1..MaxBlankLines}
  /\ ret = <<>>
  /\ prev = <<>>
  /\ phase = 0
  /\ frame = <<>>

TransformSegmentCall ==
  /\ phase = 0
  /\ fn' = "transform.js"
  /\ ret' = SeqChapters(Join(arg, LF))
  /\ phase' = 1
  /\ UNCHANGED <<arg, prev, frame, mainVars>>

Segment003Call ==
  /\ phase = 0
  /\ fn' = "part_003"
  /\ ret' = Chapters003(Join(arg, LF))
  /\ phase' = 1
  /\ UNCHANGED <<arg, prev, frame, mainVars>>

NextBlank == TransformSegmentCall \/ Segment003Call

SpecBlank == InitBlank /\ [][NextBlank]_vars

Blank(line) == \A k \in 1..Len(line) : line[k] \in WhiteSpace

\* the lines of the j-th chapter of the text that are not blank
TextLines(lines, j) == {k \in 1..Len(BodyLines(lines, j)) : ~Blank(BodyLines(lines, j)[k])}

\* C24: in the content of a chapter the blank lines before its first line of
\* text and after its last are left out, every line between the two is there
\* as it was, the blank ones included, and the content neither begins nor
\* ends with a blank line; a chapter without a line of text has no content.
C24_BlankLinesSuppressed ==
  phase = 1 =>
    /\ Len(ret) = Cardinality(HeadingLines(arg))
    /\ \A j \in 1..Len(ret) :
         LET body == BodyLines(arg, j)
             text == TextLines(arg, j)
             out == Split(ret[j].content, LF)
         IN IF text = {} THEN ret[j].content = <<>>
            ELSE LET first == CHOOSE k \in text : \A m \in text : k <= m
                     last == CHOOSE k \in text : \A m \in text : m <= k
                 IN /\ Len(out) = last - first + 1
                    /\ ~Blank(out[1])
                    /\ ~Blank(out[Len(out)])
                    /\ \A m \in (first + 1)..(last - 1) : out[m - first + 1] = body[m]
                    /\ Trim(out[1]) = Trim(body[first])
                    /\ Trim(out[Len(out)]) = Trim(body[last])

\* a chapter with a blank line before its first line of text and a blank line
\* of one space between its two lines of text, the second with whitespace
\* around it
C24_Witness ==
  /\ phase = 1
  /\ Len(arg) = 5
  /\ arg[1] = <<Di, 49, Zhang>>
  /\ arg[2] = <<>>
  /\ arg[3] = <<97>>
  /\ arg[4] = <<SPACE>>
  /\ arg[5] = <<SPACE, 97, SPACE>>
  /\ ret[1].content = <<97, LF, SPACE, LF, SPACE, 97>>

(***************************************************************************)
(* The segmenter of processFileSet of part_002: the loop over the matches  *)
(* of the heading regex in the cleaned text.                               *)
(***************************************************************************)
MaxRegexLines == 4

\* the while loop: the match, the match behind it, the chapter between the
\* two, and chapterRegex.lastIndex = chapterEnd
RECURSIVE Loop002(_, _, _)
Loop002(content, lastIndex, chapters) ==
  LET match == Exec(content, lastIndex)
  IN IF ~match.found THEN chapters
     ELSE LET nextMatch == Exec(content, match.end)
              chapterEnd == IF nextMatch.found THEN nextMatch.index ELSE Len(content)
          IN Loop002(content, chapterEnd,
               Append(chapters,
                 [title |-> Trim(Slice(content, match.index, match.end)),
                  content |-> Trim(Slice(content, match.end, chapterEnd))]))

\* the chapters after the cleaning of each of them
Chapters002(content) ==
  LET chapters == Loop002(content, 0, <<>>)
  IN [j \in 1..Len(chapters) |->
        [title |-> chapters[j].title,
         content |-> ReplaceRuns(StripTrailingBlank(StripLeadingBlank(
                       chapters[j].content)), {LF}, 3, <<LF, LF>>)]]

\* the lines of the texts: a heading with nothing behind its mark, headings
\* with a title, text, a blank line
RegexLineSet ==
  { <<Di, 49, Zhang>>,
    <<Di, 50, Zhang, SPACE, 98>>,
    <<Di, 21313, Zhang, 98>>,
    <<97>>,
    <<>> }

InitRegex ==
  /\ MainIdle
  /\ fn = "none"
  /\ arg \in UNION {[1..n -> RegexLineSet] : n \in 1..MaxRegexLines}
  /\ ret = <<>>
  /\ prev = <<>>
  /\ phase = 0
  /\ frame = <<>>

\* the segmenter of part_002 on the cleaned text, beside extractChapters on
\* the same text
Segment002Call ==
  /\ phase = 0
  /\ fn' = "part_002"
  /\ ret' = Chapters002(cleanAndStandardize(Join(arg, LF)))
  /\ prev' = extractChapters(cleanAndStandardize(Join(arg, LF)))
  /\ phase' = 1
  /\ UNCHANGED <<arg, frame, mainVars>>

NextRegex == Segment002Call

SpecRegex == InitRegex /\ [][NextRegex]_vars

\* C25: on a cleaned text the loop over the regex matches gives the chapters
\* of the loop over the lines: as many, in the same order, with the same
\* titles, and no title holds a line break.
C25_RegexEquivalentToLines ==
  phase = 1 =>
    /\ Len(ret) = Len(prev)
    /\ \A j \in 1..Len(ret) :
         /\ j <= Len(prev) => ret[j].title = prev[j].title
         /\ \A k \in 1..Len(ret[j].title) : ret[j].title[k] # LF

\* the positions of the cleaned text where the heading regex matches
HeadingMatches(s) == {p \in 1..Len(s) : ChapterRegexEnd(s, p) > 0}

\* C26: the loop of processNovelFile visits every heading match once: it never
\* holds more chapters than the text has matches, and what it returns for a
\* text with a match is one chapter for each.
C26_EachMatchVisitedOnce ==
  /\ frame.pc \in {"while", "returned"} =>
       Len(frame.chapters) <= Cardinality(HeadingMatches(frame.cleaned))
  /\ (frame.pc = "returned" /\ ret.ok /\ HeadingMatches(frame.cleaned) # {}) =>
       Len(ret.chapters) = Cardinality(HeadingMatches(frame.cleaned))

(***************************************************************************)
(* The segmenter of processFiles of the first program of part_005: the     *)
(* text split at its headings, the sections taken two by two.              *)
(***************************************************************************)
MaxSplitLines == 4

EQUALS == 61

\* 第\d+章 at the position p of s
SplitHeadingAt(s, p) ==
  /\ s[p] = Di
  /\ LET n == RunLen(s, p + 1, 48..57)
     IN n >= 1 /\ p + 1 + n <= Len(s) /\ s[p + 1 + n] = Zhang

\* the position behind the match of /(第\d+章[^\n]*)/ that begins at p
SplitHeadingEnd(s, p) ==
  LET q == p + 2 + RunLen(s, p + 1, 48..57)
  IN q + RunLen(s, q, (0..65535) \ {LF})

\* content.split(/(第\d+章[^\n]*)/): the text before each heading and the
\* heading, by turns, and the text behind the last heading
RECURSIVE SplitSections(_, _)
SplitSections(s, from) ==
  LET P == {p \in from..Len(s) : SplitHeadingAt(s, p)}
  IN IF P = {} THEN <<SubSeq(s, from, Len(s))>>
     ELSE LET p == CHOOSE y \in P : \A z \in P : y <= z
          IN <<SubSeq(s, from, p - 1), SubSeq(s, p, SplitHeadingEnd(s, p) - 1)>>
               \o SplitSections(s, SplitHeadingEnd(s, p))

\* .filter(section => section.trim())
FilterSections(sections) == SelectSeq(sections, LAMBDA section : Trim(section) # <<>>)

\* the position behind the match of /^===+[\s\S]*?===+/m that begins at p, 0
\* without a match: a run of '=' at the start of a line up to the end of the
\* next run of three, or a run of six or more by itself
SeparatorEnd(s, p) ==
  LET n == RunLen(s, p, {EQUALS})
      Q == {q \in (p + n)..Len(s) : RunLen(s, q, {EQUALS}) >= 3}
  IN IF ~(p = 1 \/ s[p - 1] \in LineTerminators) \/ n < 3 THEN 0
     ELSE IF Q # {}
       THEN LET q == CHOOSE y \in Q : \A z \in Q : y <= z
            IN q + RunLen(s, q, {EQUALS})
     ELSE IF n >= 6 THEN p + n
     ELSE 0

\* chapterContent.replace(/^===+[\s\S]*?===+/gm, '')
RECURSIVE RemoveSeparatorsFrom(_, _)
RemoveSeparatorsFrom(s, p) ==
  IF p > Len(s) THEN <<>>
  ELSE IF SeparatorEnd(s, p) > 0 THEN RemoveSeparatorsFrom(s, SeparatorEnd(s, p))
  ELSE <<s[p]>> \o RemoveSeparatorsFrom(s, p + 1)

\* the for loop over the sections from the second, two at a time (k counts
\* from 1): the title, and the section behind it as the content; without a
\* section behind it chapterSections[i+1] is undefined and .trim() throws
RECURSIVE SplitLoop(_, _, _)
SplitLoop(sections, k, chapters) ==
  IF k > Len(sections) THEN [ok |-> TRUE, chapters |-> chapters]
  ELSE IF k + 1 > Len(sections) THEN [ok |-> FALSE, chapters |-> <<>>]
  ELSE SplitLoop(sections, k + 2,
         Append(chapters,
           [title |-> Trim(sections[k]),
            content |-> Trim(RemoveSeparatorsFrom(Trim(sections[k + 1]), 1))]))

\* the chapters of a text; ok = FALSE stands for the TypeError thrown
ChaptersSplit(content) == SplitLoop(FilterSections(SplitSections(content, 1)), 2, <<>>)

\* the lines of the texts: headings with and without a title, text, a blank
\* line, a separator
SplitLineSet ==
  { <<Di, 49, Zhang>>,
    <<Di, 50, Zhang, SPACE, 98>>,
    <<97>>,
    <<>>,
    <<EQUALS, EQUALS, EQUALS>> }

InitSplit ==
  /\ MainIdle
  /\ fn = "none"
  /\ arg \in UNION {[1..n -> SplitLineSet] : n \in 1..MaxSplitLines}
  /\ ret = <<>>
  /\ prev = <<>>
  /\ phase = 0
  /\ frame = <<>>

SegmentSplitCall ==
  /\ phase = 0
  /\ fn' = "part_005"
  /\ ret' = ChaptersSplit(Join(arg, LF))
  /\ phase' = 1
  /\ UNCHANGED <<arg, prev, frame, mainVars>>

NextSplit == SegmentSplitCall

SpecSplit == InitSplit /\ [][NextSplit]_vars

\* the lines of the text with a heading
SplitHeadingLines(lines) ==
  {k \in 1..Len(lines) : \E p \in 1..Len(lines[k]) : SplitHeadingAt(lines[k], p)}

\* C27: the segmenter gets to the end of its sections without a throw, and
\* gives one chapter for every line with a heading, titled with that line.
C27_TitlesAreHeadings ==
  phase = 1 =>
    /\ ret.ok
    /\ Len(ret.chapters) = Cardinality(SplitHeadingLines(arg))
    /\ \A j \in 1..Len(ret.chapters) :
         \E k \in SplitHeadingLines(arg) :
           /\ Cardinality({m \in SplitHeadingLines(arg) : m <= k}) = j
           /\ ret.chapters[j].title = Trim(arg[k])

\* C28: the output directory changes only in the step of a file whose
\* compression is done, and there only at the path of that file, which is not
\* written again afterwards; a step in which generateAsync throws leaves the
\* directory as it was, the path of the file neither created nor modified.
C28_SingleWriteAfterCompression ==
  [][/\ outputDir' # outputDir =>
          \E f \in DOMAIN pc :
            /\ pc[f] = "writeFile"
            /\ pc'[f] \in {"ok", "err"}
            /\ DOMAIN outputDir' = DOMAIN outputDir \cup {OutputPath(f)}
            /\ \A q \in DOMAIN outputDir : q # OutputPath(f) => outputDir'[q] = outputDir[q]
     /\ \A f \in DOMAIN pc :
          /\ (pc[f] \in {"readFile", "detectEncoding", "extractChapters", "generateAsync"}
                /\ Steps(f)) => outputDir' = outputDir
          /\ pc[f] \in Settled =>
               IF OutputPath(f) \in DOMAIN outputDir
                 THEN outputDir'[OutputPath(f)] = outputDir[OutputPath(f)]
                 ELSE OutputPath(f) \notin DOMAIN outputDir'
    ]_vars

\* the file whose path held an older artifact has failed and the older
\* artifact is still there, beside another file whose archive was written
C28_Witness ==
  /\ pc[TextName(2)] = "err"
  /\ Segmentable(TextName(2))
  /\ outputDir[OutputPath(TextName(2))] = Stale
  /\ \E f \in DOMAIN pc :
       /\ pc[f] = "ok"
       /\ outputDir[OutputPath(f)].container = "zip"

(***************************************************************************)
(* main of scripts/old/gzipvv.js: the archives of the data directory are   *)
(* unpacked, then the text files are processed one after the other, each   *)
(* to the path made of the name of its archive, or of its own name.        *)
(***************************************************************************)
\* the first index at which part occurs in s, 0 when it does not
IndexOf(s, part) ==
  LET P == {p \in 1..(Len(s) - Len(part) + 1) : SubSeq(s, p, p + Len(part) - 1) = part}
  IN IF P = {} THEN 0 ELSE CHOOSE y \in P : \A z \in P : y <= z

\* zipFile.replace('.zip', ''): the first '.zip' taken out
WithoutDotZip(zipFile) ==
  LET p == IndexOf(zipFile, DotZip)
  IN IF p = 0 THEN zipFile
     ELSE SubSeq(zipFile, 1, p - 1) \o SubSeq(zipFile, p + Len(DotZip), Len(zipFile))

UnderscoreTw == <<95, 116, 119>>

\* name.replace(/_tw$/, '')
WithoutTw(name) ==
  IF EndsWith(name, UnderscoreTw)
    THEN SubSeq(name, 1, Len(name) - Len(UnderscoreTw))
    ELSE name

DotJsonGz == <<46, 106, 115, 111, 110, 46, 103, 122>>

\* (zipToTxtMap[file] || path.basename(file, '.txt')).replace(/_tw$/, ''),
\* and `${baseName}.json.gz`; an empty name in the map counts as none
GzOutputPath(file, zipToTxtMap) ==
  WithoutTw(IF file \in DOMAIN zipToTxtMap /\ zipToTxtMap[file] # <<>>
              THEN zipToTxtMap[file]
              ELSE Basename(file, DotTxt)) \o DotJsonGz

\* the text of a file: UTF-8, and GB18030 when that looks malformed
GzDecode(buffer) ==
  IF containsMalformedText(Utf8ToString(buffer), "utf8")
    THEN GbDecode(buffer)
    ELSE Utf8ToString(buffer)

\* the text files that may lie in the data directory, in the order readdir
\* gives them: "a.txt", "a_tw.txt", "b.txt", and the two of the archive,
\* "c.txt" and "d.txt"
TwName == <<97>> \o UnderscoreTw \o DotTxt
GzNames == <<TextName(1), TwName, TextName(2), TextName(3), TextName(4)>>

\* the archive "z.zip" of the data directory
ZName == <<122>> \o DotZip

\* a novel of one chapter whose body is the letter given: "第1章", a line
\* break, the letter
NovelOf(letter) == <<231, 172, 172, 49, 231, 171, 160, LF, letter>>

\* what the files hold: every file its own novel, but "b.txt" a text
\* without a heading
GzBytes(file) ==
  IF file = TextName(2) THEN <<98>>
  ELSE NovelOf(64 + CHOOSE k \in 1..Len(GzNames) : GzNames[k] = file)

\* the entries of the archive: two text files and one other file
ZEntries == <<TextName(3), TextName(4), OtherEntry>>

InitGz ==
  /\ fn = "gzipvv.js"
  /\ mainPc = "ensureDir"
  /\ i = 0
  /\ textFiles = <<>>
  /\ \E present \in SUBSET {TextName(1), TwName, TextName(2)} :
       \E zip \in SUBSET {ZName} :
         inputDir = [f \in present \cup zip |-> IF f = ZName THEN ZEntries ELSE GzBytes(f)]
  /\ pc = [f \in Range(GzNames) |-> "idle"]
  /\ log = [f \in Range(GzNames) |-> <<>>]
  /\ outputDir = <<>>
  /\ selectedFiles \in {<<>>, << <<97>>, TwName, TextName(3) >>}
  /\ arg = <<>>
  /\ ret = <<>>
  /\ prev = <<>>
  /\ phase = 0
  /\ frame = <<>>

\* await fs.ensureDir(dataDir); await fs.ensureDir(resultDir): a throw ends
\* main, and the catch behind main() the process
GzEnsureDir ==
  /\ mainPc = "ensureDir"
  /\ \/ mainPc' = "extractZips"
     \/ mainPc' = "fatal"
  /\ UNCHANGED <<i, textFiles, pc, inputDir, outputDir, selectedFiles, log, callVars>>

\* processZipFiles: every text entry of every archive is written to the data
\* directory and gets the name of its archive in zipToTxtMap
GzProcessZipFiles ==
  /\ mainPc = "extractZips"
  /\ \/ /\ mainPc' = "readdir"
        /\ LET zips == {z \in DOMAIN inputDir : EndsWith(z, DotZip)}
               texts == {e \in UNION {Range(inputDir[z]) : z \in zips} : EndsWith(e, DotTxt)}
           IN /\ inputDir' = [f \in DOMAIN inputDir \cup texts |->
                                IF f \in texts THEN GzBytes(f) ELSE inputDir[f]]
              /\ frame' = [e \in texts |->
                             WithoutDotZip(CHOOSE z \in zips : e \in Range(inputDir[z]))]
     \/ /\ mainPc' = "fatal"
        /\ UNCHANGED <<inputDir, frame>>
  /\ UNCHANGED <<i, textFiles, pc, outputDir, selectedFiles, log, fn, arg, ret, prev, phase>>

\* the text files of the data directory, filtered by the names given
GzReaddir ==
  /\ mainPc = "readdir"
  /\ \/ /\ textFiles' = FilterSelected(
                          SelectSeq(GzNames, LAMBDA f : f \in DOMAIN inputDir),
                          selectedFiles)
        /\ mainPc' = "loop"
     \/ /\ mainPc' = "fatal"
        /\ UNCHANGED textFiles
  /\ UNCHANGED <<i, pc, inputDir, outputDir, selectedFiles, log, callVars>>

\* for (const file of textFiles): processTextFile up to its first await
GzNextFile ==
  /\ mainPc = "loop"
  /\ i < Len(textFiles)
  /\ pc' = [pc EXCEPT ![Current] = "readFile"]
  /\ mainPc' = "awaitFile"
  /\ UNCHANGED <<i, textFiles, inputDir, outputDir, selectedFiles, log, callVars>>

\* the reads and extractChapters: the file goes on to saveCompressedJson, or
\* ends with the warning, or a read throws into the catch of processTextFile
GzReadDone ==
  /\ mainPc = "awaitFile"
  /\ pc[Current] = "readFile"
  /\ \/ IF Len(extractChaptersGz(GzDecode(inputDir[Current]))) > 0
          THEN pc' = [pc EXCEPT ![Current] = "writeFile"] /\ UNCHANGED <<mainPc, i, log>>
          ELSE /\ pc' = [pc EXCEPT ![Current] = "warn"]
               /\ log' = [log EXCEPT ![Current] = Append(@, WarningLine(Current))]
               /\ mainPc' = "loop"
               /\ i' = i + 1
     \/ /\ pc' = [pc EXCEPT ![Current] = "err"]
        /\ log' = [log EXCEPT ![Current] = Append(@, ErrorLine(Current))]
        /\ mainPc' = "loop"
        /\ i' = i + 1
  /\ UNCHANGED <<textFiles, inputDir, outputDir, selectedFiles, callVars>>

\* await fs.writeFile(outputPath, compressed) of saveCompressedJson and the
\* end of processTextFile
GzWriteDone ==
  /\ mainPc = "awaitFile"
  /\ pc[Current] = "writeFile"
  /\ \/ /\ outputDir' = WriteFile(outputDir, GzOutputPath(Current, frame),
                          GzipContent(Collection(extractChaptersGz(GzDecode(inputDir[Current])))))
        /\ pc' = [pc EXCEPT ![Current] = "ok"]
        /\ log' = [log EXCEPT ![Current] =
                     Append(@, [tag |-> "success", file |-> GzOutputPath(Current, frame)])]
     \/ /\ \/ outputDir' = outputDir
           \/ outputDir' = WriteFile(outputDir, GzOutputPath(Current, frame), Truncated)
        /\ pc' = [pc EXCEPT ![Current] = "err"]
        /\ log' = [log EXCEPT ![Current] = Append(@, ErrorLine(Current))]
  /\ mainPc' = "loop"
  /\ i' = i + 1
  /\ UNCHANGED <<textFiles, inputDir, selectedFiles, callVars>>

\* console.log('\nProcessing complete!')
GzComplete ==
  /\ mainPc = "loop"
  /\ i >= Len(textFiles)
  /\ mainPc' = "complete"
  /\ UNCHANGED <<i, textFiles, pc, inputDir, outputDir, selectedFiles, log, callVars>>

NextGz ==
  \/ GzEnsureDir
  \/ GzProcessZipFiles
  \/ GzReaddir
  \/ GzNextFile
  \/ GzReadDone
  \/ GzWriteDone
  \/ GzComplete

SpecGz == InitGz /\ [][NextGz]_vars

\* C29: the files of a run have paths of their own, so the artifact written
\* for a file stays what was written for it: at every time the path of a file
\* that ended with success holds the chapters of that file.
C29_ArtifactNeverOverwritten ==
  \A f \in Range(textFiles) :
    pc[f] = "ok" =>
      /\ GzOutputPath(f, frame) \in DOMAIN outputDir
      /\ outputDir[GzOutputPath(f, frame)]
           = GzipContent(Collection(extractChaptersGz(GzDecode(inputDir[f]))))

====
